---------------------------- MODULE Spec2Model ----------------------------
(***************************************************************************)
(* Inner-product functional encryption over a DDH group and the three-role *)
(* fuzzy-hash comparison protocol (Authority, Compute server, Client).     *)
(*                                                                         *)
(* The prime-order group of the elliptic-curve backend is modelled as the  *)
(* additive group of integers modulo the prime GroupOrder: a group element *)
(* is its discrete logarithm with respect to a fixed base point, scalars   *)
(* are integers modulo GroupOrder.  Every group and scalar operation of    *)
(* the source is computed in that group.                                   *)
(***************************************************************************)
EXTENDS Integers, Sequences, FiniteSets, TLC

(***************************************************************************)
(* Bounds of the model.                                                    *)
(***************************************************************************)
\* length N of the vectors of the stand-alone FE runs (the code is generic in N)
FeN == 3
\* coordinates of the FE test vectors range over 0..MaxCoord
MaxCoord == 4
\* decryption bounds of the stand-alone FE runs range over 0..MaxBound
MaxBound == 12
\* number of seeds the OS entropy source can hand to Setup in the FE runs
NumSetupSeeds == 4
\* number of seeds the OS entropy source can hand to an encryptor
NumEncSeeds == 2

(***************************************************************************)
(* Program constants.                                                      *)
(***************************************************************************)
\* order of the group (a prime; 2^252 + ... for Ristretto, scaled here)
GroupOrder == 257
\* u8 and i16 limits
U8_MAX == 255
I16_MIN == -32768

\* Option<T>
None == <<>>
Some(v) == <<v>>
\* Result<T, E>: the error values carry no data the model reads
Err == <<>>
Ok(v) == <<v>>
\* the outcome of a call that may panic: a panic is neither Err nor None
Panic == <<0, 0>>
Returns(v) == <<v>>
\* the value inside Some, Ok or Returns
Unwrap(o) == o[1]

\* Iterator::collect: the elements of a map over 1..n, as a Vec
collect(f) == f \o <<>>

RECURSIVE SumUpTo(_, _)
SumUpTo(s, n) ==
    IF n = 0 THEN 0 ELSE s[n] + SumUpTo(s, n - 1)

\* the sum of the elements of a sequence of integers
SumSeq(s) ==
    LET v == collect(s) IN SumUpTo(v, Len(v))

\* the plain inner product of two integer vectors (the specification's <x,y>)
InnerProduct(x, y) ==
    SumSeq([i \in 1..Len(x) |-> x[i] * y[i]])

(***************************************************************************)
(* Group backend: RistrettoPoint and Scalar.                               *)
(***************************************************************************)
ScalarFrom(v) == v % GroupOrder
ScalarAdd(a, b) == (a + b) % GroupOrder
ScalarMul(a, b) == (a * b) % GroupOrder
ScalarNeg(a) == (GroupOrder - a) % GroupOrder
Identity == 0
PointAdd(p, q) == (p + q) % GroupOrder
PointMul(a, p) == (a * p) % GroupOrder

\* The k-th draw of a StdRng seeded with `seed`: a deterministic stream.
RngWord(seed, k) ==
    (seed * 89 + k * k * 31 + k * 57 + seed * k * 13 + 5)

\* Scalar::random(rng): a scalar, uniformly
ScalarRandom(seed, k) == RngWord(seed, k) % GroupOrder

\* RistrettoPoint::random(rng): a group element; the identity has probability
\* 1/GroupOrder (2^-252 in the source's group) and is not drawn.
PointRandom(seed, k) == 1 + (RngWord(seed, k) % (GroupOrder - 1))

RECURSIVE MultiscalarAcc(_, _, _, _)
MultiscalarAcc(scalars, points, i, acc) ==
    IF i > Len(scalars) THEN acc
    ELSE MultiscalarAcc(scalars, points, i + 1,
                        PointAdd(acc, PointMul(scalars[i], points[i])))

\* RistrettoPoint::multiscalar_mul(scalars, points) = sum_i scalars[i] * points[i]
multiscalar_mul(scalars, points) ==
    MultiscalarAcc(scalars, points, 1, Identity)

(***************************************************************************)
(* FE primitive (elliptic-curve backend).                                  *)
(***************************************************************************)
\* MskItem::get_rand: s then t, two consecutive draws
MskItem_get_rand(seed, k) ==
    [s |-> ScalarRandom(seed, k), t |-> ScalarRandom(seed, k + 1)]

\* Instance::setup for vectors of length n, rng seeded with `seed`
setup(n, seed) ==
    LET g == PointRandom(seed, 0)
        h == PointRandom(seed, 1)
        msk == collect([i \in 1..n |-> MskItem_get_rand(seed, 2 * i)])
        mpk == collect([i \in 1..n |->
                          PointAdd(PointMul(msk[i].s, g), PointMul(msk[i].t, h))])
    IN  [g |-> g, h |-> h, msk |-> msk, mpk |-> mpk]

\* Instance::public_key
public_key(inst) ==
    [g |-> inst.g, h |-> inst.h, mpk |-> inst.mpk]

\* the reduce of secret_key: the pairs added up component by component
RECURSIVE ReducePairs(_, _, _)
ReducePairs(pairs, i, acc) ==
    IF i > Len(pairs) THEN acc
    ELSE LET e == <<ScalarAdd(acc[1], pairs[i][1]), ScalarAdd(acc[2], pairs[i][2])>>
         IN  ReducePairs(pairs, i + 1, e)

\* secret_key with the s components summed twice (msk[i].s for msk[i].t)
secret_key_s_twice(inst, vector) ==
    LET pairs == collect([i \in 1..Len(vector) |->
                            <<ScalarMul(inst.msk[i].s, ScalarFrom(vector[i])),
                              ScalarMul(inst.msk[i].s, ScalarFrom(vector[i]))>>])
        scal == ReducePairs(pairs, 2, pairs[1])
    IN  [g |-> inst.g, sx |-> scal[1], tx |-> scal[2],
         x |-> collect([i \in 1..Len(vector) |-> ScalarFrom(vector[i])])]

\* secret_key with sx and tx shifted by the generator g of the instance
secret_key_shifted_by_g(inst, vector) ==
    LET pairs == collect([i \in 1..Len(vector) |->
                            <<ScalarMul(inst.msk[i].s, ScalarFrom(vector[i])),
                              ScalarMul(inst.msk[i].t, ScalarFrom(vector[i]))>>])
        scal == ReducePairs(pairs, 2, pairs[1])
    IN  [g |-> inst.g, sx |-> ScalarAdd(scal[1], inst.g),
         tx |-> ScalarAdd(scal[2], inst.g),
         x |-> collect([i \in 1..Len(vector) |-> ScalarFrom(vector[i])])]

\* Instance::secret_key(vector)
secret_key(inst, vector) ==
    LET pairs == collect([i \in 1..Len(vector) |->
                            <<ScalarMul(inst.msk[i].s, ScalarFrom(vector[i])),
                              ScalarMul(inst.msk[i].t, ScalarFrom(vector[i]))>>])
        scal == ReducePairs(pairs, 2, pairs[1])
    IN  [g |-> inst.g, sx |-> scal[1], tx |-> scal[2],
         x |-> collect([i \in 1..Len(vector) |-> ScalarFrom(vector[i])])]

\* PublicKey::encrypt(rng, vector); r is the next draw of the encryptor's rng
encrypt(pk, seed, k, vector) ==
    LET r == ScalarRandom(seed, k)
    IN  [c |-> PointMul(r, pk.g),
         d |-> PointMul(r, pk.h),
         e |-> collect([i \in 1..Len(vector) |->
                          PointAdd(PointMul(ScalarFrom(vector[i]), pk.g),
                                   PointMul(r, pk.mpk[i]))])]

\* the brute-force loop with the bound tested after the step: it tries
\* i = bound too (while p != ex { if i == bound { return None }; i += 1; .. })
RECURSIVE BruteForce_inclusive(_, _, _, _, _)
BruteForce_inclusive(i, p, g, ex, bound) ==
    IF p = ex THEN Some(i)
    ELSE IF i = bound THEN None
    ELSE BruteForce_inclusive(i + 1, PointAdd(p, g), g, ex, bound)

\* the width of the counter and of the bound of decrypt (u16 in the source)
BoundBits == 5
U16_MAX == (2 ^ BoundBits) - 1

\* i += 1 on the counter
CounterNext(i) == (i + 1) % (2 ^ BoundBits)

\* the brute-force loop without the test of the bound: while p != ex
RECURSIVE BruteForce_unbounded(_, _, _, _, _)
BruteForce_unbounded(i, p, g, ex, bound) ==
    IF p # ex
    THEN BruteForce_unbounded(CounterNext(i), PointAdd(p, g), g, ex, bound)
    ELSE IF i = bound THEN None ELSE Some(i)

\* the brute-force loop of decrypt: while i != bound && p != ex { i += 1; p += g }
RECURSIVE BruteForce(_, _, _, _, _)
BruteForce(i, p, g, ex, bound) ==
    IF i # bound /\ p # ex
    THEN BruteForce(CounterNext(i), PointAdd(p, g), g, ex, bound)
    ELSE IF i = bound THEN None ELSE Some(i)

\* the same loop as the finite-field backend has it, on the operation of
\* the group: while i < bound && p != ex { i += 1; p *= g }
RECURSIVE BruteForce_ff(_, _, _, _, _)
BruteForce_ff(i, p, g, ex, bound) ==
    IF i < bound /\ p # ex
    THEN BruteForce_ff(CounterNext(i), PointAdd(p, g), g, ex, bound)
    ELSE IF i = bound THEN None ELSE Some(i)

\* the values the counter of the loop of decrypt takes, in order
RECURSIVE BruteForceCounter(_, _, _, _, _)
BruteForceCounter(i, p, g, ex, bound) ==
    IF i # bound /\ p # ex
    THEN <<i>> \o BruteForceCounter(CounterNext(i), PointAdd(p, g), g, ex, bound)
    ELSE <<i>>

\* SecretKey::decrypt(ct, bound)
decrypt(sk, ct, bound) ==
    LET scalars == sk.x \o <<ScalarNeg(sk.sx), ScalarNeg(sk.tx)>>
        points == ct.e \o <<ct.c, ct.d>>
        ex == multiscalar_mul(scalars, points)
    IN  BruteForce(0, Identity, sk.g, ex, bound)

(***************************************************************************)
(* Fuzzy-hash vectors (fuzzy_hashes).                                      *)
(***************************************************************************)
\* length in bytes of a Nilsimsa digest (32 in the source, scaled here)
NILSIMSA_FH_SIZE_BYTES == 1
\* length in bytes of a digest concatenated with its complement
NILSIMSA_VECTOR_SIZE_BYTES == 2 * NILSIMSA_FH_SIZE_BYTES
\* the same length in bits: the vector length N of the protocol's FE instances
NILSIMSA_VECTOR_SIZE_BITS == 8 * NILSIMSA_VECTOR_SIZE_BYTES

Pow2(n) == 2 ^ n

\* bit j (0 = most significant) of byte b: 1 & (b >> (7 - j))
BitOf(b, j) == (b \div Pow2(7 - j)) % 2

\* a ^ b on u8
Xor8(a, b) ==
    SumSeq([j \in 1..8 |->
              ((BitOf(a, j - 1) + BitOf(b, j - 1)) % 2) * Pow2(8 - j)])

\* the digest followed by itself, where the source appends the complement
FHVector_from_twice(value) ==
    collect([k \in 1..NILSIMSA_VECTOR_SIZE_BYTES |->
        value[((k - 1) % (NILSIMSA_VECTOR_SIZE_BYTES \div 2)) + 1]])

\* From<[u8; 32]> for FHVector<u8>: the digest followed by its complement
FHVector_from(value) ==
    collect([k \in 1..NILSIMSA_VECTOR_SIZE_BYTES |->
        LET i == k - 1
            index == i % (NILSIMSA_VECTOR_SIZE_BYTES \div 2)
        IN  IF i < NILSIMSA_VECTOR_SIZE_BYTES \div 2
            THEN value[index + 1]
            ELSE Xor8(U8_MAX, value[index + 1])])

\* to_bits without the mask: b >> (7 - i) where the source has 1 & (b >> (7 - i))
to_bits_unmasked(v, n) ==
    LET flat == collect([k \in 1..(8 * Len(v)) |->
                   v[((k - 1) \div 8) + 1] \div Pow2(7 - ((k - 1) % 8))])
    IN  IF Len(flat) = n THEN Some(flat) ELSE None

\* FHVector::to_bits::<N>: each byte fanned out to 8 bits, most significant
\* first; the conversion to [u8; N] fails when the length is not N
to_bits(v, n) ==
    LET flat == collect([k \in 1..(8 * Len(v)) |->
                            BitOf(v[((k - 1) \div 8) + 1], (k - 1) % 8)])
    IN  IF Len(flat) = n THEN Some(flat) ELSE None

(***************************************************************************)
(* Key compression (fe::ec_fe) and the messages (messages).                *)
(***************************************************************************)
\* RistrettoPoint::compress: the canonical little-endian encoding
PointCompress(p) == <<p % 256, p \div 256>>

\* CompressedRistretto::decompress: None when the encoding is not canonical
PointDecompress(bytes) ==
    LET v == bytes[1] + 256 * bytes[2]
    IN  IF v < GroupOrder THEN Some(v) ELSE None

\* From<&SecretKey<N>> for CompressedSecretKey; panics on a vector that is
\* not made of zeros and ones
CompressedSecretKey_from(sk) ==
    IF \E i \in 1..Len(sk.x) : sk.x[i] \notin {0, 1}
    THEN Panic
    ELSE Returns([g |-> PointCompress(sk.g),
                  sx |-> sk.sx,
                  tx |-> sk.tx,
                  x |-> collect([c \in 1..(Len(sk.x) \div 8) |->
                           SumSeq([j \in 1..8 |->
                                     sk.x[8 * (c - 1) + j] * Pow2(7 - (j - 1))])])])

\* TryFrom<&CompressedSecretKey> for SecretKey<N>; array::from_fn reads
\* value.x[i / 8] for every i < N and panics on an index out of bounds
SecretKey_try_from(csk, n) ==
    IF Len(csk.x) # n \div 8 THEN Err
    ELSE IF PointDecompress(csk.g) = None THEN Err
    ELSE IF \E i \in 0..(n - 1) : i \div 8 >= Len(csk.x) THEN Panic
    ELSE Ok([g |-> Unwrap(PointDecompress(csk.g)),
             sx |-> csk.sx,
             tx |-> csk.tx,
             x |-> collect([k \in 1..n |->
                      ScalarFrom(BitOf(csk.x[((k - 1) \div 8) + 1],
                                       (k - 1) % 8))])])

\* From<(PublicKey, Vec<SecretKey>)> for GenerateInstanceResponse
GenerateInstanceResponse_from(pk, sk_vec) ==
    LET compressed == collect([j \in 1..Len(sk_vec) |->
                                  CompressedSecretKey_from(sk_vec[j])])
    IN  IF \E j \in 1..Len(sk_vec) : compressed[j] = Panic
        THEN Panic
        ELSE Returns([pk |-> pk,
                      sks |-> collect([j \in 1..Len(sk_vec) |->
                                         Unwrap(compressed[j])])])

\* GenerateInstanceResponse::decompress
decompress(resp, n) ==
    LET vec == collect([j \in 1..Len(resp.sks) |->
                           SecretKey_try_from(resp.sks[j], n)])
        bad == { j \in 1..Len(resp.sks) : vec[j] = Err \/ vec[j] = Panic }
        first == CHOOSE j \in bad : \A i \in bad : j <= i
    IN  IF bad # {}
        THEN (IF vec[first] = Panic THEN Panic ELSE Err)
        ELSE Ok([pk |-> resp.pk,
                 sks |-> collect([j \in 1..Len(resp.sks) |-> Unwrap(vec[j])])])

\* postcard::to_stdvec: the frame that carries a value
to_stdvec(value) == [decodes |-> TRUE, value |-> value]
\* a frame that is the encoding of no value
GarbageFrame == [decodes |-> FALSE, value |-> <<>>]
\* postcard::from_bytes: the value a frame carries, or an error
from_bytes(frame) == IF frame.decodes THEN Ok(frame.value) ELSE Err

HashComparisonRequest_NILSIMSA == [tag |-> "NILSIMSA"]
\* an EncryptionRequest that leaves the public key out
EncryptionRequest_without_pk(pk, s) == [pk |-> None, similarity_score |-> s]
EncryptionRequest(pk, s) == [pk |-> pk, similarity_score |-> s]
EncryptedVector(ct) == [tag |-> "EncryptedVector", ct |-> ct]
EndOfComparison == [tag |-> "EndOfComparison"]

(***************************************************************************)
(* Comparator.                                                             *)
(***************************************************************************)
\* the literal 128 of compare
ScoreBase == 128

\* compare with the whole vector length where the source has half of it
compare_full_length(sk, encrypted_vector) ==
    LET dec == decrypt(sk, encrypted_vector, NILSIMSA_VECTOR_SIZE_BITS)
    IN  IF dec = None THEN Panic
        ELSE Returns(ScoreBase - (NILSIMSA_VECTOR_SIZE_BITS - Unwrap(dec)))

\* compare with None skipped: the lowest score where the source panics
compare_skip_none(sk, encrypted_vector) ==
    LET dec == decrypt(sk, encrypted_vector, NILSIMSA_VECTOR_SIZE_BITS)
    IN  IF dec = None THEN Returns(I16_MIN)
        ELSE Returns(ScoreBase - ((NILSIMSA_VECTOR_SIZE_BITS \div 2) - Unwrap(dec)))

\* compare with the distance subtracted the other way round
compare_swapped(sk, encrypted_vector) ==
    LET dec == decrypt(sk, encrypted_vector, NILSIMSA_VECTOR_SIZE_BITS)
    IN  IF dec = None THEN Panic
        ELSE Returns(ScoreBase - (Unwrap(dec) - (NILSIMSA_VECTOR_SIZE_BITS \div 2)))

\* Comparator::compare for a Nilsimsa secret key: panics when decrypt is None
compare(sk, encrypted_vector) ==
    LET dec == decrypt(sk, encrypted_vector, NILSIMSA_VECTOR_SIZE_BITS)
    IN  IF dec = None THEN Panic
        ELSE Returns(ScoreBase - ((NILSIMSA_VECTOR_SIZE_BITS \div 2) - Unwrap(dec)))

(***************************************************************************)
(* Authority (instance-server).                                            *)
(***************************************************************************)
SERVER_MAX_LEN == NILSIMSA_VECTOR_SIZE_BITS

\* check_incomming_vectors without the arm that rejects the empty request
check_incomming_vectors_accepts_empty(incomming_vectors) ==
    IF Len(incomming_vectors) = SERVER_MAX_LEN THEN Err
    ELSE Ok(TRUE)

\* check_incomming_vectors: Ok, or the error that makes the handler return.
\* FHVector has one variant, so the vectors of a request are of one kind.
check_incomming_vectors(incomming_vectors) ==
    IF Len(incomming_vectors) = 0 THEN Err
    ELSE IF Len(incomming_vectors) = SERVER_MAX_LEN THEN Err
    ELSE Ok(TRUE)

\* generate_parameters_nilsimsa fanning each byte out least significant bit
\* first: 1 & (v_bytes[i / 8] >> (i % 8))
generate_parameters_nilsimsa_lsb_first(requested_vectors, seed) ==
    LET instance == setup(NILSIMSA_VECTOR_SIZE_BITS, seed)
        pk == public_key(instance)
        sk_vec == collect([j \in 1..Len(requested_vectors) |->
                     secret_key(instance,
                        collect([k \in 1..NILSIMSA_VECTOR_SIZE_BITS |->
                            BitOf(requested_vectors[j][((k - 1) \div 8) + 1],
                                  7 - ((k - 1) % 8))]))])
    IN  GenerateInstanceResponse_from(pk, sk_vec)

\* generate_parameters_nilsimsa taking each secret key from an instance of
\* its own
generate_parameters_nilsimsa_instance_per_key(requested_vectors, seed) ==
    LET instance == setup(NILSIMSA_VECTOR_SIZE_BITS, seed)
        pk == public_key(instance)
        sk_vec == collect([j \in 1..Len(requested_vectors) |->
                     secret_key(setup(NILSIMSA_VECTOR_SIZE_BITS, seed + j),
                        collect([k \in 1..NILSIMSA_VECTOR_SIZE_BITS |->
                            BitOf(requested_vectors[j][((k - 1) \div 8) + 1],
                                  (k - 1) % 8)]))])
    IN  GenerateInstanceResponse_from(pk, sk_vec)

\* generate_parameters_nilsimsa: one fresh instance, its public key and one
\* secret key per requested vector, in request order
generate_parameters_nilsimsa(requested_vectors, seed) ==
    LET instance == setup(NILSIMSA_VECTOR_SIZE_BITS, seed)
        pk == public_key(instance)
        sk_vec == collect([j \in 1..Len(requested_vectors) |->
                     secret_key(instance,
                        collect([k \in 1..NILSIMSA_VECTOR_SIZE_BITS |->
                            BitOf(requested_vectors[j][((k - 1) \div 8) + 1],
                                  (k - 1) % 8)]))])
    IN  GenerateInstanceResponse_from(pk, sk_vec)

(***************************************************************************)
(* Compute server helpers.                                                 *)
(***************************************************************************)
\* Server::get_nilsimsa_hashes: the rows of the store, each encoded
get_nilsimsa_hashes(rows) ==
    collect([i \in 1..Len(rows) |-> FHVector_from(rows[i])])

\* chunks with chunks one element longer than asked for
chunks_one_more(s, size) ==
    collect([b \in 1..((Len(s) + size) \div (size + 1)) |->
        SubSeq(s, (b - 1) * (size + 1) + 1,
               IF b * (size + 1) < Len(s) THEN b * (size + 1) ELSE Len(s))])

\* slice::chunks(size): consecutive chunks of `size` elements, the last one
\* possibly shorter, none empty
chunks(s, size) ==
    collect([b \in 1..((Len(s) + size - 1) \div size) |->
        SubSeq(s, (b - 1) * size + 1,
               IF b * size < Len(s) THEN b * size ELSE Len(s))])

\* the scoring loop with the comparison reversed (tmp_score < score)
RECURSIVE ScoreBatch_reversed(_, _, _, _)
ScoreBatch_reversed(sks, ct, j, acc) ==
    IF j > Len(sks) THEN [panicked |-> FALSE, score |-> acc]
    ELSE LET tmp_score == compare(sks[j], ct)
         IN  IF tmp_score = Panic THEN [panicked |-> TRUE, score |-> acc]
             ELSE ScoreBatch_reversed(sks, ct, j + 1,
                                      IF Unwrap(tmp_score) < acc
                                      THEN Unwrap(tmp_score) ELSE acc)

\* the scoring loop of handle_client over the keys of one batch, from key j
\* with the running value `acc`: stops at the first key whose compare panics
RECURSIVE ScoreBatch(_, _, _, _)
ScoreBatch(sks, ct, j, acc) ==
    IF j > Len(sks) THEN [panicked |-> FALSE, score |-> acc]
    ELSE LET tmp_score == compare(sks[j], ct)
         IN  IF tmp_score = Panic THEN [panicked |-> TRUE, score |-> acc]
             ELSE ScoreBatch(sks, ct, j + 1,
                             IF Unwrap(tmp_score) > acc
                             THEN Unwrap(tmp_score) ELSE acc)

(***************************************************************************)
(* Bounds of the protocol runs.                                            *)
(***************************************************************************)
\* the store holds up to MaxBatches full batches plus one row
MaxBatches == 2
\* number of states of the OS entropy source
NumEntropies == 2
\* number of requests other peers send to the Authority in its stand-alone runs
MaxProbes == 2

(***************************************************************************)
(* State.                                                                  *)
(***************************************************************************)
VARIABLES
    fe_pc,      \* position of the stand-alone FE run
    fe_inst,    \* its instance
    fe_y,       \* the key vector
    fe_x,       \* the plaintext vector
    fe_sk,      \* KeyGen(y)
    fe_ct,      \* Enc(x)
    fe_bound,   \* the bound given to Dec
    cmp,        \* the comparison of two digests: [pc, h1, h2, v1, v2, x1, x2,
                \* sk, pk, ct, packed, score, expected, test_score]
    kc,         \* the compression of a key and what came back from it
    rep,        \* two runs of Setup, KeyGen, Enc side by side: [pc, seed,
                \* made, inst, y, sk, x, rnd, ct], each a pair
    fe_dec,     \* the result of Dec
    db_rows,    \* the rows of the fuzzy_hashes table: raw Nilsimsa digests
    peer_kind,  \* who connects to Compute: "client" (Client::start) or "peer"
    fuzzy_hash, \* the Client's FHVector
    os_entropy, \* what SysRng hands out: [authority, client]
    conn,       \* the client's TCP connection: "none", "pending", "open"
    silent_conn, \* the connection of a client that connects and never sends
    to_compute, \* frames in flight, client -> Compute
    to_client,  \* frames in flight, Compute -> client
    srv_pc,     \* position of Server::run (Compute)
    hashes,     \* Server::run: the loaded hashes
    batch_ix,   \* Server::run: the batch being fetched
    keys,       \* Server::run / ClientHandler: (pk, sks) per batch
    h_pc,       \* position of ClientHandler::handle_client (Compute)
    h_ix,       \* handle_client: index of the batch in the for loop
    score,      \* handle_client: score
    auth_conn,  \* a connection to the Authority: [peer, state, req, resp]
    auth_conn_b, \* another connection to the Authority, open at the same time
    setups,     \* number of instances the Authority has set up
    cl_pc,      \* position of Client::start
    cl_score,   \* Client::start: score
    cl_rng_pos, \* Client::start: draws taken from rng
    cl_result,  \* what Client::start returned
    sent_log,   \* history: the EncryptionRequests Compute sent
    recv_log,   \* history: the EncryptionRequests the client received
    scored,     \* history: per batch scored and per key, what decrypt and
                \* compare give on the ciphertext received: [dec, res]
    auth_log,   \* history: the requests the Authority handled: [peer,
                \* decoded, vectors, result, instance, msk, sent, pk, nkeys]
    probes      \* number of requests other peers sent to the Authority

fe_core == <<fe_pc, fe_inst, fe_y, fe_x, fe_sk, fe_ct, fe_bound, fe_dec>>
fe_vars == <<fe_core, cmp, kc, rep>>
env_vars == <<db_rows, peer_kind, fuzzy_hash, os_entropy, silent_conn>>
chan_vars == <<to_compute, to_client>>
srv_vars == <<srv_pc, hashes, batch_ix, keys>>
h_vars == <<h_pc, h_ix, score>>
auth_vars == <<auth_conn, auth_conn_b, setups, auth_log, probes>>
cl_vars == <<cl_pc, cl_score, cl_rng_pos, cl_result>>
log_vars == <<sent_log, recv_log, scored>>
proto_vars ==
    <<env_vars, conn, chan_vars, srv_vars, h_vars, auth_vars, cl_vars, log_vars>>

vars == <<fe_vars, proto_vars>>

(***************************************************************************)
(* Stand-alone runs of the FE primitive: Setup, KeyGen, Enc, Dec.          *)
(***************************************************************************)
\* the test vectors: arithmetic progressions modulo MaxCoord + 1
FeVectors ==
    { collect([i \in 1..FeN |-> (a + b * i) % (MaxCoord + 1)]) :
        a, b \in 0..MaxCoord }

CmpIdle == [pc |-> "idle"]
KcIdle == [pc |-> "idle"]
RepIdle == [pc |-> "idle"]

UnitIdle ==
    /\ cmp = CmpIdle
    /\ kc = KcIdle
    /\ rep = RepIdle

FeIdle ==
    /\ fe_pc = "setup"
    /\ fe_inst = None
    /\ fe_y = None
    /\ fe_x = None
    /\ fe_sk = None
    /\ fe_ct = None
    /\ fe_bound = 0
    /\ fe_dec = None

AuthIdle ==
    [peer |-> "none", state |-> "idle", req |-> GarbageFrame, resp |-> None]

ProtoIdle ==
    /\ db_rows = <<>>
    /\ peer_kind = "none"
    /\ silent_conn = "none"
    /\ fuzzy_hash = <<>>
    /\ conn = "none"
    /\ to_compute = <<>>
    /\ to_client = <<>>
    /\ srv_pc = "accept"
    /\ hashes = <<>>
    /\ batch_ix = 0
    /\ keys = <<>>
    /\ h_pc = "idle"
    /\ h_ix = 0
    /\ score = I16_MIN
    /\ auth_conn = AuthIdle
    /\ auth_conn_b = AuthIdle
    /\ setups = 0
    /\ cl_pc = "init"
    /\ cl_score = I16_MIN
    /\ cl_rng_pos = 0
    /\ cl_result = None
    /\ sent_log = <<>>
    /\ recv_log = <<>>
    /\ scored = <<>>
    /\ auth_log = <<>>
    /\ probes = 0

FeInit ==
    /\ FeIdle
    /\ UnitIdle
    /\ ProtoIdle
    /\ os_entropy = [authority |-> 1, client |-> 1]

FeSetup ==
    /\ fe_pc = "setup"
    /\ \E seed \in 1..NumSetupSeeds :
          fe_inst' = setup(FeN, seed)
    /\ fe_pc' = "keygen"
    /\ UNCHANGED <<fe_y, fe_x, fe_sk, fe_ct, fe_bound, fe_dec, cmp, kc, rep,
                   proto_vars>>

FeKeyGen ==
    /\ fe_pc = "keygen"
    /\ \E y \in FeVectors :
          /\ fe_y' = y
          /\ fe_sk' = secret_key(fe_inst, y)
    /\ fe_pc' = "encrypt"
    /\ UNCHANGED <<fe_inst, fe_x, fe_ct, fe_bound, fe_dec, cmp, kc, rep,
                   proto_vars>>

FeEncrypt ==
    /\ fe_pc = "encrypt"
    /\ \E x \in FeVectors, seed \in 1..NumEncSeeds :
          /\ fe_x' = x
          /\ fe_ct' = encrypt(public_key(fe_inst), seed, 0, x)
    /\ fe_pc' = "decrypt"
    /\ UNCHANGED <<fe_inst, fe_y, fe_sk, fe_bound, fe_dec, cmp, kc, rep,
                   proto_vars>>

FeDecrypt ==
    /\ fe_pc = "decrypt"
    /\ \E b \in (0..MaxBound) \cup {U16_MAX} :
          /\ fe_bound' = b
          /\ fe_dec' = decrypt(fe_sk, fe_ct, b)
    /\ fe_pc' = "done"
    /\ UNCHANGED <<fe_inst, fe_y, fe_x, fe_sk, fe_ct, cmp, kc, rep,
                   proto_vars>>

FeNext ==
    \/ FeSetup
    \/ FeKeyGen
    \/ FeEncrypt
    \/ FeDecrypt

SpecFE == FeInit /\ [][FeNext]_vars


(***************************************************************************)
(* The protocol: one client session against Compute and the Authority.     *)
(***************************************************************************)
\* the digests of the runs: one byte value repeated
Digests ==
    { collect([i \in 1..NILSIMSA_FH_SIZE_BYTES |-> b]) : b \in {0, 255, 165} }

\* a store of len rows: digest d1 at row hi, digest d2 elsewhere
Corpus(len, hi, d1, d2) ==
    collect([i \in 1..len |-> IF i = hi THEN d1 ELSE d2])

\* the sizes of the store: empty, one row, and around each batch boundary
CorpusLens ==
    {0, 1} \cup { k * (NILSIMSA_VECTOR_SIZE_BITS - 1) + e :
                    k \in 1..MaxBatches, e \in {0, 1} }

\* the distinguished row is the first one or the last one
Corpora ==
    UNION { { Corpus(len, hi, d1, d2) :
                hi \in {1, len}, d1 \in Digests, d2 \in Digests } :
            len \in CorpusLens }

\* what SysRng hands out to the Authority and to the client
EntropySources ==
    { [authority |-> s, client |-> NumEntropies + 1 - s] : s \in 1..NumEntropies }

\* who connects to Compute: Client::start with the vector of a digest, or
\* another peer, which has no vector of its own
Sessions ==
    { [peer_kind |-> "client", fuzzy_hash |-> FHVector_from(d), os_entropy |-> e] :
        d \in Digests, e \in EntropySources }
    \cup { [peer_kind |-> "peer", fuzzy_hash |-> <<>>,
            os_entropy |-> [authority |-> 1, client |-> 1]] }

Init ==
    /\ FeIdle
    /\ UnitIdle
    /\ db_rows \in Corpora
    /\ \E session \in Sessions :
          /\ peer_kind = session.peer_kind
          /\ fuzzy_hash = session.fuzzy_hash
          /\ os_entropy = session.os_entropy
    /\ silent_conn = "none"
    /\ conn = "none"
    /\ to_compute = <<>>
    /\ to_client = <<>>
    /\ srv_pc = "accept"
    /\ hashes = <<>>
    /\ batch_ix = 0
    /\ keys = <<>>
    /\ h_pc = "idle"
    /\ h_ix = 0
    /\ score = I16_MIN
    /\ auth_conn = AuthIdle
    /\ auth_conn_b = AuthIdle
    /\ setups = 0
    /\ cl_pc = "init"
    /\ cl_score = I16_MIN
    /\ cl_rng_pos = 0
    /\ cl_result = None
    /\ sent_log = <<>>
    /\ recv_log = <<>>
    /\ scored = <<>>
    /\ auth_log = <<>>
    /\ probes = 0

(*------------------------------ Authority -------------------------------*)
\* ClientHandler::handle_client of the Authority on the frame it reads, with
\* `seed` what SysRng hands to Instance::setup: the outcome of the handler,
\* the response it writes, whether it set up an instance, and the master
\* secret key that instance had inside generate_parameters_nilsimsa
authority_handle_client(frame, seed) ==
    LET decoded == from_bytes(frame)
        incomming_vectors == Unwrap(decoded)
        response == generate_parameters_nilsimsa(incomming_vectors, seed)
        msk == setup(NILSIMSA_VECTOR_SIZE_BITS, seed).msk
    IN  IF decoded = Err
        THEN [result |-> Err, written |-> None, instance |-> FALSE,
              msk |-> <<>>]
        ELSE IF check_incomming_vectors(incomming_vectors) = Err
        THEN [result |-> Err, written |-> None, instance |-> FALSE,
              msk |-> <<>>]
        ELSE IF response = Panic
        THEN [result |-> Panic, written |-> None, instance |-> TRUE,
              msk |-> msk]
        ELSE [result |-> Ok(TRUE), written |-> Some(Unwrap(response)),
              instance |-> TRUE, msk |-> msk]

\* the connection c once its handler has ended with `out`: answered, or
\* closed with nothing written
AuthorityServed(c, out) ==
    IF out.written = None
    THEN [c EXCEPT !.state = "closed"]
    ELSE [c EXCEPT !.state = "answered", !.resp = out.written]

\* what the history keeps of the request of connection c handled with `out`
AuthorityLogEntry(c, out) ==
    [peer |-> c.peer,
     decoded |-> c.req.decodes,
     vectors |-> c.req.value,
     result |-> out.result,
     instance |-> out.instance,
     msk |-> out.msk,
     sent |-> out.written,
     pk |-> IF out.written = None THEN None ELSE Some(Unwrap(out.written).pk),
     nkeys |-> IF out.written = None THEN 0 ELSE Len(Unwrap(out.written).sks)]

\* the handler task of the Authority for the connection auth_conn: read the
\* request, check it, generate the parameters and write the response; on an
\* error return without writing (the connection closes)
AuthorityHandle ==
    /\ auth_conn.state = "sent"
    /\ LET out == authority_handle_client(auth_conn.req,
                                          os_entropy.authority + setups)
       IN  /\ auth_conn' = AuthorityServed(auth_conn, out)
           /\ setups' = IF out.instance THEN setups + 1 ELSE setups
           /\ auth_log' = Append(auth_log, AuthorityLogEntry(auth_conn, out))
    /\ UNCHANGED <<fe_vars, env_vars, conn, chan_vars, srv_vars, h_vars,
                   cl_vars, log_vars, probes, auth_conn_b>>

\* the handler task of the Authority for the connection auth_conn_b
AuthorityHandleB ==
    /\ auth_conn_b.state = "sent"
    /\ LET out == authority_handle_client(auth_conn_b.req,
                                          os_entropy.authority + setups)
       IN  /\ auth_conn_b' = AuthorityServed(auth_conn_b, out)
           /\ setups' = IF out.instance THEN setups + 1 ELSE setups
           /\ auth_log' = Append(auth_log, AuthorityLogEntry(auth_conn_b, out))
    /\ UNCHANGED <<fe_vars, env_vars, conn, chan_vars, srv_vars, h_vars,
                   cl_vars, log_vars, probes, auth_conn>>

(*------------------------------- Compute --------------------------------*)
\* Server::run: accept_conn
ComputeAccept ==
    /\ srv_pc = "accept"
    /\ conn = "pending"
    /\ conn' = "open"
    /\ srv_pc' = "read_request"
    /\ UNCHANGED <<fe_vars, env_vars, chan_vars, hashes, batch_ix, keys,
                   h_vars, auth_vars, cl_vars, log_vars>>

\* the handler task Server::run spawns once the keys of all batches are there
SpawnHandler(all_keys) ==
    /\ keys' = all_keys
    /\ h_pc' = IF all_keys = <<>> THEN "final" ELSE "send_pk"
    /\ h_ix' = 1
    /\ score' = I16_MIN
    /\ srv_pc' = "accept"

\* Server::run: read the HashComparisonRequest and load the hashes; the
\* read is unwrapped and the decoding is expected, so the end of the stream
\* and a frame that is no HashComparisonRequest both panic
ComputeLoadRequest ==
    /\ srv_pc = "read_request"
    /\ to_compute # <<>> \/ cl_pc = "gone"
    /\ IF to_compute = <<>>
       THEN /\ srv_pc' = "panicked"
            /\ UNCHANGED <<to_compute, hashes, batch_ix, keys, h_vars>>
       ELSE IF Head(to_compute) # HashComparisonRequest_NILSIMSA
       THEN /\ to_compute' = Tail(to_compute)
            /\ srv_pc' = "panicked"
            /\ UNCHANGED <<hashes, batch_ix, keys, h_vars>>
       ELSE /\ to_compute' = Tail(to_compute)
            /\ LET loaded == get_nilsimsa_hashes(db_rows)
               IN  /\ hashes' = loaded
                   /\ IF chunks(loaded, NILSIMSA_VECTOR_SIZE_BITS - 1) = <<>>
                      THEN /\ SpawnHandler(<<>>)
                           /\ batch_ix' = 0
                      ELSE /\ srv_pc' = "fetch"
                           /\ batch_ix' = 1
                           /\ UNCHANGED <<keys, h_vars>>
    /\ UNCHANGED <<fe_vars, env_vars, conn, to_client, auth_vars, cl_vars,
                   log_vars>>

\* Server::retrieve_secret_keys: connect to the Authority, send the batch
ComputeSendBatch ==
    /\ srv_pc = "fetch"
    /\ auth_conn.state = "idle"
    /\ auth_conn' =
          [peer |-> "compute", state |-> "sent",
           req |-> to_stdvec(chunks(hashes,
                                    NILSIMSA_VECTOR_SIZE_BITS - 1)[batch_ix]),
           resp |-> None]
    /\ srv_pc' = "await_authority"
    /\ UNCHANGED <<fe_vars, env_vars, conn, chan_vars, hashes, batch_ix, keys,
                   h_vars, auth_conn_b, setups, auth_log, probes, cl_vars,
                   log_vars>>

\* Server::run spawning the handler as soon as the keys of the first batch
\* are there
ComputeRecvBatch_spawn_early ==
    /\ srv_pc = "await_authority"
    /\ auth_conn.peer = "compute"
    /\ auth_conn.state \in {"answered", "closed"}
    /\ auth_conn' = AuthIdle
    /\ IF auth_conn.state = "closed"
       THEN /\ srv_pc' = "panicked"
            /\ UNCHANGED <<batch_ix, keys, h_vars>>
       ELSE LET decompressed ==
                    decompress(Unwrap(auth_conn.resp), NILSIMSA_VECTOR_SIZE_BITS)
            IN  IF decompressed = Panic
                THEN /\ srv_pc' = "panicked"
                     /\ UNCHANGED <<batch_ix, keys, h_vars>>
                ELSE IF decompressed = Err
                THEN /\ srv_pc' = "failed"
                     /\ UNCHANGED <<batch_ix, keys, h_vars>>
                ELSE /\ SpawnHandler(Append(keys, Unwrap(decompressed)))
                     /\ batch_ix' = batch_ix
    /\ UNCHANGED <<fe_vars, env_vars, conn, chan_vars, hashes, auth_conn_b,
                   setups, auth_log, probes, cl_vars, log_vars>>

\* Server::retrieve_secret_keys: read the response; Server::run: decompress
\* it, push it, go on with the next batch or spawn the handler
ComputeRecvBatch ==
    /\ srv_pc = "await_authority"
    /\ auth_conn.peer = "compute"
    /\ auth_conn.state \in {"answered", "closed"}
    /\ auth_conn' = AuthIdle
    /\ IF auth_conn.state = "closed"
       THEN /\ srv_pc' = "panicked"
            /\ UNCHANGED <<batch_ix, keys, h_vars>>
       ELSE LET decompressed ==
                    decompress(Unwrap(auth_conn.resp), NILSIMSA_VECTOR_SIZE_BITS)
                nbatches == Len(chunks(hashes, NILSIMSA_VECTOR_SIZE_BITS - 1))
            IN  IF decompressed = Panic
                THEN /\ srv_pc' = "panicked"
                     /\ UNCHANGED <<batch_ix, keys, h_vars>>
                ELSE IF decompressed = Err
                THEN /\ srv_pc' = "failed"
                     /\ UNCHANGED <<batch_ix, keys, h_vars>>
                ELSE IF batch_ix < nbatches
                THEN /\ keys' = Append(keys, Unwrap(decompressed))
                     /\ batch_ix' = batch_ix + 1
                     /\ srv_pc' = "fetch"
                     /\ UNCHANGED h_vars
                ELSE /\ SpawnHandler(Append(keys, Unwrap(decompressed)))
                     /\ batch_ix' = batch_ix
    /\ UNCHANGED <<fe_vars, env_vars, conn, chan_vars, hashes, auth_conn_b,
                   setups, auth_log, probes, cl_vars, log_vars>>

\* handle_client sending the public key without waiting for the response
HandlerSendPk_no_wait ==
    /\ h_pc = "send_pk"
    /\ LET message == EncryptionRequest(Some(keys[h_ix].pk), Some(score))
       IN  /\ to_client' = Append(to_client, message)
           /\ sent_log' = Append(sent_log,
                                 [msg |-> message, after |-> Len(scored)])
    /\ h_pc' = IF h_ix < Len(keys) THEN "send_pk" ELSE "final"
    /\ h_ix' = IF h_ix < Len(keys) THEN h_ix + 1 ELSE h_ix
    /\ UNCHANGED <<fe_vars, env_vars, conn, to_compute, srv_vars, score,
                   auth_vars, cl_vars, recv_log, scored>>

\* handle_client: send the public key of batch h_ix with the current score
HandlerSendPk ==
    /\ h_pc = "send_pk"
    /\ LET message == EncryptionRequest(Some(keys[h_ix].pk), Some(score))
       IN  /\ to_client' = Append(to_client, message)
           /\ sent_log' = Append(sent_log,
                                 [msg |-> message, after |-> Len(scored)])
    /\ h_pc' = "await_ct"
    /\ UNCHANGED <<fe_vars, env_vars, conn, to_compute, srv_vars, h_ix, score,
                   auth_vars, cl_vars, recv_log, scored>>

\* handle_client going on with the next batch at EndOfComparison (continue
\* where the source has break)
HandlerRecv_continue ==
    /\ h_pc = "await_ct"
    /\ to_compute # <<>>
    /\ to_compute' = Tail(to_compute)
    /\ LET encrypted_vector == Head(to_compute)
       IN  IF encrypted_vector.tag = "EndOfComparison"
           THEN /\ h_pc' = IF h_ix < Len(keys) THEN "send_pk" ELSE "final"
                /\ h_ix' = IF h_ix < Len(keys) THEN h_ix + 1 ELSE h_ix
                /\ UNCHANGED <<score, scored>>
           ELSE LET sks == keys[h_ix].sks
                    ct == encrypted_vector.ct
                    r == ScoreBatch(sks, ct, 1, I16_MIN)
                IN  /\ score' = r.score
                    /\ scored' = Append(scored,
                          collect([j \in 1..Len(sks) |->
                             [dec |-> decrypt(sks[j], ct, NILSIMSA_VECTOR_SIZE_BITS),
                              res |-> compare(sks[j], ct)]]))
                    /\ h_pc' = IF r.panicked THEN "panicked"
                               ELSE IF h_ix < Len(keys) THEN "send_pk"
                               ELSE "final"
                    /\ h_ix' = IF ~r.panicked /\ h_ix < Len(keys)
                               THEN h_ix + 1 ELSE h_ix
    /\ UNCHANGED <<fe_vars, env_vars, conn, to_client, srv_vars, auth_vars,
                   cl_vars, sent_log, recv_log>>

\* handle_client: read the EncryptionResponse; EndOfComparison leaves the
\* loop, an EncryptedVector is compared with every key of the batch
HandlerRecv ==
    /\ h_pc = "await_ct"
    /\ to_compute # <<>>
    /\ to_compute' = Tail(to_compute)
    /\ LET encrypted_vector == Head(to_compute)
       IN  IF encrypted_vector.tag = "EndOfComparison"
           THEN /\ h_pc' = "final"
                /\ UNCHANGED <<h_ix, score, scored>>
           ELSE LET sks == keys[h_ix].sks
                    ct == encrypted_vector.ct
                    r == ScoreBatch(sks, ct, 1, I16_MIN)
                IN  /\ score' = r.score
                    /\ scored' = Append(scored,
                          collect([j \in 1..Len(sks) |->
                             [dec |-> decrypt(sks[j], ct, NILSIMSA_VECTOR_SIZE_BITS),
                              res |-> compare(sks[j], ct)]]))
                    /\ h_pc' = IF r.panicked THEN "panicked"
                               ELSE IF h_ix < Len(keys) THEN "send_pk"
                               ELSE "final"
                    /\ h_ix' = IF ~r.panicked /\ h_ix < Len(keys)
                               THEN h_ix + 1 ELSE h_ix
    /\ UNCHANGED <<fe_vars, env_vars, conn, to_client, srv_vars, auth_vars,
                   cl_vars, sent_log, recv_log>>

\* handle_client: after the loop, send the request with pk = None
HandlerFinal ==
    /\ h_pc = "final"
    /\ LET message == EncryptionRequest(None, Some(score))
       IN  /\ to_client' = Append(to_client, message)
           /\ sent_log' = Append(sent_log,
                                 [msg |-> message, after |-> Len(scored)])
    /\ h_pc' = "done"
    /\ UNCHANGED <<fe_vars, env_vars, conn, to_compute, srv_vars, h_ix, score,
                   auth_vars, cl_vars, recv_log, scored>>

(*-------------------------------- Client --------------------------------*)
\* client main: TcpStream::connect
ClientConnect ==
    /\ cl_pc = "init"
    /\ conn' = "pending"
    /\ cl_pc' = "start"
    /\ UNCHANGED <<fe_vars, env_vars, chan_vars, srv_vars, h_vars, auth_vars,
                   cl_score, cl_rng_pos, cl_result, log_vars>>

\* Client::start up to the loop: send the HashComparisonRequest
ClientStart ==
    /\ peer_kind = "client"
    /\ cl_pc = "start"
    /\ cl_score' = I16_MIN
    /\ IF to_bits(fuzzy_hash, NILSIMSA_VECTOR_SIZE_BITS) = None
       THEN /\ cl_pc' = "failed"
            /\ UNCHANGED to_compute
       ELSE /\ cl_pc' = "await"
            /\ to_compute' = Append(to_compute, HashComparisonRequest_NILSIMSA)
    /\ UNCHANGED <<fe_vars, env_vars, conn, to_client, srv_vars, h_vars,
                   auth_vars, cl_rng_pos, cl_result, log_vars>>

\* the update of the score that keeps the latest value received
ClientScore_latest(old, similarity_score) ==
    IF similarity_score = None THEN old ELSE Unwrap(similarity_score)

\* the update of the score in Client::start
ClientScore(old, similarity_score) ==
    IF similarity_score = None THEN old
    ELSE IF old > Unwrap(similarity_score) THEN old
    ELSE Unwrap(similarity_score)

\* one turn of the loop of Client::start that reads a request and sends no
\* ciphertext back
ClientReceive_no_reply ==
    /\ peer_kind = "client"
    /\ cl_pc = "await"
    /\ to_client # <<>>
    /\ LET encryption_rq == Head(to_client)
           new_score == ClientScore(cl_score, encryption_rq.similarity_score)
       IN  /\ to_client' = Tail(to_client)
           /\ recv_log' = Append(recv_log, encryption_rq)
           /\ cl_score' = new_score
           /\ IF encryption_rq.pk = None
              THEN /\ cl_result' = Some(new_score)
                   /\ cl_pc' = "returned"
                   /\ UNCHANGED <<cl_rng_pos, to_compute>>
              ELSE UNCHANGED <<to_compute, cl_rng_pos, cl_pc, cl_result>>
    /\ UNCHANGED <<fe_vars, env_vars, conn, srv_vars, h_vars, auth_vars,
                   sent_log, scored>>

\* Client::start, one turn of the loop: read an EncryptionRequest, update the
\* score, return it when pk is None, else encrypt the vector and send it
ClientReceive ==
    /\ peer_kind = "client"
    /\ cl_pc = "await"
    /\ to_client # <<>>
    /\ LET encryption_rq == Head(to_client)
           new_score == ClientScore(cl_score, encryption_rq.similarity_score)
           vector == Unwrap(to_bits(fuzzy_hash, NILSIMSA_VECTOR_SIZE_BITS))
       IN  /\ to_client' = Tail(to_client)
           /\ recv_log' = Append(recv_log, encryption_rq)
           /\ cl_score' = new_score
           /\ IF encryption_rq.pk = None
              THEN /\ cl_result' = Some(new_score)
                   /\ cl_pc' = "returned"
                   /\ UNCHANGED <<cl_rng_pos, to_compute>>
              ELSE /\ to_compute' = Append(to_compute,
                        EncryptedVector(encrypt(Unwrap(encryption_rq.pk),
                                                os_entropy.client, cl_rng_pos,
                                                vector)))
                   /\ cl_rng_pos' = cl_rng_pos + 1
                   /\ UNCHANGED <<cl_pc, cl_result>>
    /\ UNCHANGED <<fe_vars, env_vars, conn, srv_vars, h_vars, auth_vars,
                   sent_log, scored>>

\* what another peer may answer to a public key: the encryption of any
\* vector of bytes, or EndOfComparison.  The vectors of the runs: all ones,
\* and twos on the digest half with zeros on the complement half.
PeerVectors ==
    { collect([k \in 1..NILSIMSA_VECTOR_SIZE_BITS |-> 1]),
      collect([k \in 1..NILSIMSA_VECTOR_SIZE_BITS |->
                  IF k <= NILSIMSA_VECTOR_SIZE_BITS \div 2 THEN 2 ELSE 0]) }

\* a peer that is not Client::start opens the session
PeerStart ==
    /\ peer_kind = "peer"
    /\ cl_pc = "start"
    /\ cl_pc' = "await"
    /\ to_compute' = Append(to_compute, HashComparisonRequest_NILSIMSA)
    /\ UNCHANGED <<fe_vars, env_vars, conn, to_client, srv_vars, h_vars,
                   auth_vars, cl_score, cl_rng_pos, cl_result, log_vars>>

\* a peer that is not Client::start answers a request
PeerRespond ==
    /\ peer_kind = "peer"
    /\ cl_pc = "await"
    /\ to_client # <<>>
    /\ LET encryption_rq == Head(to_client)
       IN  /\ to_client' = Tail(to_client)
           /\ recv_log' = Append(recv_log, encryption_rq)
           /\ IF encryption_rq.pk = None
              THEN /\ cl_pc' = "closed"
                   /\ UNCHANGED <<to_compute, cl_rng_pos>>
              ELSE /\ \/ \E v \in PeerVectors :
                            to_compute' = Append(to_compute,
                               EncryptedVector(encrypt(Unwrap(encryption_rq.pk),
                                                       os_entropy.client,
                                                       cl_rng_pos, v)))
                      \/ to_compute' = Append(to_compute, EndOfComparison)
                   /\ cl_rng_pos' = cl_rng_pos + 1
                   /\ cl_pc' = cl_pc
    /\ UNCHANGED <<fe_vars, env_vars, conn, srv_vars, h_vars, auth_vars,
                   cl_score, cl_result, sent_log, scored>>

Next ==
    \/ ClientConnect
    \/ ClientStart
    \/ ClientReceive
    \/ PeerStart
    \/ PeerRespond
    \/ ComputeAccept
    \/ ComputeLoadRequest
    \/ ComputeSendBatch
    \/ ComputeRecvBatch
    \/ AuthorityHandle
    \/ HandlerSendPk
    \/ HandlerRecv
    \/ HandlerFinal

Spec == Init /\ [][Next]_vars

\* the tasks of the session: each is run by its runtime whenever it can go
\* on (the client's main, Server::run, the spawned ClientHandler, and the
\* handler task of the Authority)
ClientTask == ClientConnect \/ ClientStart \/ ClientReceive
ServerTask ==
    ComputeAccept \/ ComputeLoadRequest \/ ComputeSendBatch \/ ComputeRecvBatch
HandlerTask == HandlerSendPk \/ HandlerRecv \/ HandlerFinal

\* when each task can go on: ENABLED <<Task>>_vars, spelled out from the
\* guards (every step of a task changes its position)
ServerReady ==
    \/ srv_pc = "accept" /\ conn = "pending"
    \/ srv_pc = "read_request" /\ (to_compute # <<>> \/ cl_pc = "gone")
    \/ srv_pc = "fetch" /\ auth_conn.state = "idle"
    \/ /\ srv_pc = "await_authority"
       /\ auth_conn.peer = "compute"
       /\ auth_conn.state \in {"answered", "closed"}
HandlerReady ==
    \/ h_pc = "send_pk"
    \/ h_pc = "await_ct" /\ to_compute # <<>>
    \/ h_pc = "final"
AuthorityReady == auth_conn.state = "sent"

\* weak fairness of each task; for the tasks whose steps compute keys it is
\* written out as  []<>~ENABLED <<A>>_vars \/ []<><<A>>_vars
Fairness ==
    /\ WF_vars(ClientTask)
    /\ ([]<>(~ServerReady) \/ []<><<ServerTask>>_vars)
    /\ ([]<>(~HandlerReady) \/ []<><<HandlerTask>>_vars)
    /\ ([]<>(~AuthorityReady) \/ []<><<AuthorityHandle>>_vars)

SpecLive == Init /\ [][Next]_vars /\ Fairness

(***************************************************************************)
(* The same session when a peer of Compute fails it: the client goes away  *)
(* or sends bytes that are no request, the Authority cannot be reached,    *)
(* ends the connection with no response, or answers with a key that does   *)
(* not decompress.                                                         *)
(***************************************************************************)
\* a frame that is no HashComparisonRequest
MalformedRequest == [tag |-> "garbage"]

\* a one-row store and a store of N rows, which makes two batches
FaultCorpora ==
    { Corpus(len, 1, d1, d1) :
        len \in {1, NILSIMSA_VECTOR_SIZE_BITS}, d1 \in Digests }

FaultInit ==
    /\ Init
    /\ db_rows \in FaultCorpora

\* the client closes its connection before it has sent the request
ClientDisconnect ==
    /\ cl_pc = "start"
    /\ cl_pc' = "gone"
    /\ UNCHANGED <<fe_vars, env_vars, conn, chan_vars, srv_vars, h_vars,
                   auth_vars, cl_score, cl_rng_pos, cl_result, log_vars>>

\* the peer sends a frame that is no HashComparisonRequest
PeerMalformed ==
    /\ peer_kind = "peer"
    /\ cl_pc = "start"
    /\ cl_pc' = "await"
    /\ to_compute' = Append(to_compute, MalformedRequest)
    /\ UNCHANGED <<fe_vars, env_vars, conn, to_client, srv_vars, h_vars,
                   auth_vars, cl_score, cl_rng_pos, cl_result, log_vars>>

\* Server::retrieve_secret_keys when TcpStream::connect fails: the error is
\* propagated with `?` out of retrieve_secret_keys and out of Server::run
ComputeConnectFails ==
    /\ srv_pc = "fetch"
    /\ auth_conn.state = "idle"
    /\ srv_pc' = "failed"
    /\ UNCHANGED <<fe_vars, env_vars, conn, chan_vars, hashes, batch_ix, keys,
                   h_vars, auth_vars, cl_vars, log_vars>>

\* the Authority rejects the batch of Compute: its handler returns an error
\* and the connection ends with no response frame
AuthorityRejects ==
    /\ auth_conn.peer = "compute"
    /\ auth_conn.state = "sent"
    /\ LET out == [result |-> Err, written |-> None, instance |-> FALSE,
                   msk |-> <<>>]
       IN  /\ auth_conn' = AuthorityServed(auth_conn, out)
           /\ auth_log' = Append(auth_log, AuthorityLogEntry(auth_conn, out))
    /\ UNCHANGED <<fe_vars, env_vars, conn, chan_vars, srv_vars, h_vars,
                   cl_vars, log_vars, probes, setups, auth_conn_b>>

\* a compressed key with an encoding of g that is not canonical
BadKey(csk) == [csk EXCEPT !.g = <<U8_MAX, U8_MAX>>]

\* the response reaches Compute with a secret key that does not decompress
AuthorityBadKey ==
    /\ auth_conn.peer = "compute"
    /\ auth_conn.state = "answered"
    /\ LET resp == Unwrap(auth_conn.resp)
       IN  /\ PointDecompress(resp.sks[Len(resp.sks)].g) # None
           /\ auth_conn' =
                 [auth_conn EXCEPT !.resp =
                     Some([resp EXCEPT !.sks[Len(resp.sks)] =
                                          BadKey(resp.sks[Len(resp.sks)])])]
    /\ UNCHANGED <<fe_vars, env_vars, conn, chan_vars, srv_vars, h_vars,
                   cl_vars, log_vars, probes, setups, auth_log, auth_conn_b>>

FaultNext ==
    \/ Next
    \/ ClientDisconnect
    \/ PeerMalformed
    \/ ComputeConnectFails
    \/ AuthorityRejects
    \/ AuthorityBadKey

SpecFaults == FaultInit /\ [][FaultNext]_vars

(***************************************************************************)
(* The session when another client has connected to Compute and never      *)
(* sends its HashComparisonRequest.                                        *)
(***************************************************************************)
\* another client connects (TcpStream::connect) and then stays silent
SilentConnect ==
    /\ silent_conn = "none"
    /\ silent_conn' = "pending"
    /\ UNCHANGED <<fe_vars, db_rows, peer_kind, fuzzy_hash, os_entropy, conn,
                   chan_vars, srv_vars, h_vars, auth_vars, cl_vars, log_vars>>

\* Server::run: accept_conn returns the silent client's connection, and run
\* goes on to reader.next().await on it, which never completes
ComputeAcceptSilent ==
    /\ srv_pc = "accept"
    /\ silent_conn = "pending"
    /\ silent_conn' = "open"
    /\ srv_pc' = "read_silent"
    /\ UNCHANGED <<fe_vars, db_rows, peer_kind, fuzzy_hash, os_entropy, conn,
                   chan_vars, hashes, batch_ix, keys, h_vars, auth_vars,
                   cl_vars, log_vars>>

SilentNext ==
    \/ Next
    \/ SilentConnect
    \/ ComputeAcceptSilent

SilentInit ==
    /\ Init
    /\ db_rows \in FaultCorpora

\* the tasks are run as in SpecLive; nothing makes the silent client send
SilentFairness ==
    /\ Fairness
    /\ WF_vars(ComputeAcceptSilent)

SpecSilent == SilentInit /\ [][SilentNext]_vars /\ SilentFairness

(***************************************************************************)
(* The Authority alone, serving the requests of any peers.                 *)
(***************************************************************************)
\* the sizes of the requests: around the limits of check_incomming_vectors
ProbeSizes ==
    {0, 1, SERVER_MAX_LEN - 1, SERVER_MAX_LEN, SERVER_MAX_LEN + 1}

AuthorityInit ==
    /\ FeIdle
    /\ UnitIdle
    /\ ProtoIdle
    /\ os_entropy \in [authority : 1..NumEntropies, client : {1}]

\* an FHVector that is the encoding of no digest: its only one is bit 0
UnitVector ==
    collect([k \in 1..NILSIMSA_VECTOR_SIZE_BYTES |->
                IF k = 1 THEN Pow2(7) ELSE 0])

\* the frames a peer may send: a GenerateInstanceRequest of each size, one
\* holding UnitVector, or bytes that are no request
ProbeFrames ==
    { to_stdvec(get_nilsimsa_hashes(Corpus(size, 1, d1, d1))) :
          size \in ProbeSizes, d1 \in { d \in Digests : d[1] = 165 } }
        \cup {to_stdvec(<<UnitVector>>)}
        \cup {GarbageFrame}

\* a peer connects to the Authority and sends a frame
ProbeSend ==
    /\ probes < MaxProbes
    /\ auth_conn.state = "idle"
    /\ \E frame \in ProbeFrames :
          auth_conn' = [peer |-> "peer", state |-> "sent", req |-> frame,
                        resp |-> None]
    /\ probes' = probes + 1
    /\ UNCHANGED <<fe_vars, env_vars, conn, chan_vars, srv_vars, h_vars,
                   auth_conn_b, setups, auth_log, cl_vars, log_vars>>

\* another peer does, while the first connection may still be open
ProbeSendB ==
    /\ probes < MaxProbes
    /\ auth_conn_b.state = "idle"
    /\ \E frame \in ProbeFrames :
          auth_conn_b' = [peer |-> "peer_b", state |-> "sent", req |-> frame,
                          resp |-> None]
    /\ probes' = probes + 1
    /\ UNCHANGED <<fe_vars, env_vars, conn, chan_vars, srv_vars, h_vars,
                   auth_conn, setups, auth_log, cl_vars, log_vars>>

\* the peer reads the response, or the end of the stream
ProbeRecv ==
    /\ auth_conn.peer = "peer"
    /\ auth_conn.state \in {"answered", "closed"}
    /\ auth_conn' = AuthIdle
    /\ UNCHANGED <<fe_vars, env_vars, conn, chan_vars, srv_vars, h_vars,
                   auth_conn_b, setups, auth_log, probes, cl_vars, log_vars>>

\* the other peer reads the response, or the end of the stream
ProbeRecvB ==
    /\ auth_conn_b.peer = "peer_b"
    /\ auth_conn_b.state \in {"answered", "closed"}
    /\ auth_conn_b' = AuthIdle
    /\ UNCHANGED <<fe_vars, env_vars, conn, chan_vars, srv_vars, h_vars,
                   auth_conn, setups, auth_log, probes, cl_vars, log_vars>>

AuthorityNext ==
    \/ ProbeSend
    \/ ProbeSendB
    \/ AuthorityHandle
    \/ AuthorityHandleB
    \/ ProbeRecv
    \/ ProbeRecvB

SpecAuthority == AuthorityInit /\ [][AuthorityNext]_vars

(***************************************************************************)
(* The comparison of two digests end to end: the encoding of both, the key *)
(* of the first from the Authority, the ciphertext of the second from the  *)
(* Client, the score of Compute; and the same pair through the             *)
(* comparator's test_correctness.                                          *)
(***************************************************************************)
\* the bytes the digests are made of: 0x00, 0x11, ... 0xff and a few bytes
\* with an odd number of ones
EncBytes == { b \in 0..U8_MAX : b % 17 = 0 } \cup {1, 7, 127}

EncDigests ==
    { collect([i \in 1..NILSIMSA_FH_SIZE_BYTES |-> b]) : b \in EncBytes }

CmpStart(h1, h2) ==
    [pc |-> "digests", h1 |-> h1, h2 |-> h2, v1 |-> <<>>, v2 |-> <<>>,
     x1 |-> <<>>, x2 |-> <<>>, sk |-> None, pk |-> None, ct |-> None,
     packed |-> <<>>,
     score |-> None, expected |-> 0, test_score |-> None]

EncInit ==
    /\ FeIdle
    /\ ProtoIdle
    /\ kc = KcIdle
    /\ rep = RepIdle
    /\ os_entropy \in EntropySources
    /\ \E h1 \in EncDigests, h2 \in EncDigests : cmp = CmpStart(h1, h2)

\* FHVector::from of both digests, and to_bits of the vectors
EncEncode ==
    /\ cmp.pc = "digests"
    /\ LET v1 == FHVector_from(cmp.h1)
           v2 == FHVector_from(cmp.h2)
       IN  cmp' = [cmp EXCEPT !.pc = "encoded", !.v1 = v1, !.v2 = v2,
                     !.x1 = Unwrap(to_bits(v1, NILSIMSA_VECTOR_SIZE_BITS)),
                     !.x2 = Unwrap(to_bits(v2, NILSIMSA_VECTOR_SIZE_BITS))]
    /\ UNCHANGED <<fe_core, kc, rep, proto_vars>>

\* the Authority generates the parameters for the first vector and Compute
\* decompresses the response
EncKeyGen ==
    /\ cmp.pc = "encoded"
    /\ LET response == generate_parameters_nilsimsa(<<cmp.v1>>,
                                                    os_entropy.authority)
           keys_of == decompress(Unwrap(response), NILSIMSA_VECTOR_SIZE_BITS)
       IN  cmp' = [cmp EXCEPT !.pc = "keyed",
                     !.packed = Unwrap(response).sks[1].x,
                     !.pk = Some(Unwrap(keys_of).pk),
                     !.sk = Some(Unwrap(keys_of).sks[1])]
    /\ UNCHANGED <<fe_core, kc, rep, proto_vars>>

\* the Client encrypts the bits of the second vector
EncEncrypt ==
    /\ cmp.pc = "keyed"
    /\ cmp' = [cmp EXCEPT !.pc = "encrypted",
                  !.ct = Some(encrypt(Unwrap(cmp.pk), os_entropy.client, 0,
                                      cmp.x2))]
    /\ UNCHANGED <<fe_core, kc, rep, proto_vars>>

\* Compute compares
EncCompare ==
    /\ cmp.pc = "encrypted"
    /\ cmp' = [cmp EXCEPT !.pc = "scored",
                  !.score = compare(Unwrap(cmp.sk), Unwrap(cmp.ct))]
    /\ UNCHANGED <<fe_core, kc, rep, proto_vars>>

\* const N of the tests of the comparator: the length of a raw bit vector
TestN == NILSIMSA_VECTOR_SIZE_BITS \div 2

\* tests::test_correctness: the vector followed by its complement
test_vec_to_compare(vec) ==
    collect([k \in 1..NILSIMSA_VECTOR_SIZE_BITS |->
        IF k - 1 < TestN THEN vec[k] ELSE 1 - vec[((k - 1) % TestN) + 1]])

\* tests::test_correctness, the closure on one pair of bit vectors: the score
\* it expects and the score compare returns
EncTest ==
    /\ cmp.pc = "scored"
    /\ LET secret_vec == SubSeq(cmp.x1, 1, TestN)
           secret_client_vec == SubSeq(cmp.x2, 1, TestN)
           expected_score == ScoreBase - InnerProduct(secret_vec,
                                                      secret_client_vec)
           instance == setup(NILSIMSA_VECTOR_SIZE_BITS, os_entropy.authority)
           pk == public_key(instance)
           sk == secret_key(instance, test_vec_to_compare(secret_vec))
           ct == encrypt(pk, os_entropy.client, 0,
                         test_vec_to_compare(secret_client_vec))
       IN  cmp' = [cmp EXCEPT !.pc = "tested",
                     !.expected = expected_score,
                     !.test_score = compare(sk, ct)]
    /\ UNCHANGED <<fe_core, kc, rep, proto_vars>>

EncNext ==
    \/ EncEncode
    \/ EncKeyGen
    \/ EncEncrypt
    \/ EncCompare
    \/ EncTest

SpecEncoding == EncInit /\ [][EncNext]_vars

(***************************************************************************)
(* The compression of a secret key of any vector length and what comes     *)
(* back from it, alone and inside a GenerateInstanceResponse.              *)
(***************************************************************************)
\* the vector lengths N of SecretKey<N>: multiples of 8 and one between
KeyLens == {8, 12, 16}

\* vectors of zeros and ones of length n, and one that is not
KeyVectors(n) ==
    { collect([i \in 1..n |-> 0]),
      collect([i \in 1..n |-> 1]),
      collect([i \in 1..n |-> i % 2]),
      collect([i \in 1..n |-> IF i = n THEN 1 ELSE 0]),
      collect([i \in 1..n |-> IF i = 1 THEN 2 ELSE 0]) }

\* the bounds handed to decrypt
KeyBounds(n) == {0, 1, n}

KcStart(n, x) ==
    [pc |-> "vector", n |-> n, x |-> x, pk |-> None, sk |-> None,
     ct |-> None, good |-> None, csk |-> None, tampered |-> "no",
     out |-> None, bound |-> 0, dec |-> None, dec_back |-> None,
     first |-> FALSE, resp_out |-> None]

KcInit ==
    /\ FeIdle
    /\ ProtoIdle
    /\ cmp = CmpIdle
    /\ rep = RepIdle
    /\ os_entropy \in EntropySources
    /\ \E n \in KeyLens : \E x \in KeyVectors(n) : kc = KcStart(n, x)

\* Instance::setup, public_key, secret_key for the vector, and a ciphertext
\* of the all-ones vector
KcKeyGen ==
    /\ kc.pc = "vector"
    /\ LET instance == setup(kc.n, os_entropy.authority)
           pk == public_key(instance)
       IN  kc' = [kc EXCEPT !.pc = "key",
                    !.pk = Some(pk),
                    !.sk = Some(secret_key(instance, kc.x)),
                    !.ct = Some(encrypt(pk, os_entropy.client, 0,
                                        collect([i \in 1..kc.n |-> 1])))]
    /\ UNCHANGED <<fe_core, cmp, rep, proto_vars>>

\* CompressedSecretKey::from(&sk)
KcCompress ==
    /\ kc.pc = "key"
    /\ LET compressed == CompressedSecretKey_from(Unwrap(kc.sk))
       IN  kc' = IF compressed = Panic
                 THEN [kc EXCEPT !.pc = "panicked"]
                 ELSE [kc EXCEPT !.pc = "compressed",
                         !.good = compressed, !.csk = compressed]
    /\ UNCHANGED <<fe_core, cmp, rep, proto_vars>>

\* the compressed key arrives with a byte less, a byte more, or with an
\* encoding of g that is not canonical
KcTamper ==
    /\ kc.pc = "compressed"
    /\ kc.tampered = "no"
    /\ LET csk == Unwrap(kc.csk)
       IN  \/ /\ csk.x # <<>>
              /\ kc' = [kc EXCEPT !.tampered = "short",
                           !.csk = Some([csk EXCEPT !.x =
                                           SubSeq(csk.x, 1, Len(csk.x) - 1)])]
           \/ kc' = [kc EXCEPT !.tampered = "long",
                        !.csk = Some([csk EXCEPT !.x = Append(csk.x, 0)])]
           \/ kc' = [kc EXCEPT !.tampered = "bad_g",
                        !.csk = Some(BadKey(csk))]
    /\ UNCHANGED <<fe_core, cmp, rep, proto_vars>>

\* SecretKey::<N>::try_from(&csk), and decrypt with the key that went in
\* and with the key that came back
KcDecompress ==
    /\ kc.pc = "compressed"
    /\ \E bound \in KeyBounds(kc.n) :
          LET out == SecretKey_try_from(Unwrap(kc.csk), kc.n)
          IN  kc' = [kc EXCEPT !.pc = "decompressed",
                       !.out = out,
                       !.bound = bound,
                       !.dec = decrypt(Unwrap(kc.sk), Unwrap(kc.ct), bound),
                       !.dec_back =
                           IF out = Err \/ out = Panic THEN None
                           ELSE decrypt(Unwrap(out), Unwrap(kc.ct), bound)]
    /\ UNCHANGED <<fe_core, cmp, rep, proto_vars>>

\* GenerateInstanceResponse::decompress of a response of two keys: the key
\* as it came out of the compression, and the key as it arrived
KcResponse ==
    /\ kc.pc = "decompressed"
    /\ \E first \in BOOLEAN :
          LET sks == IF first THEN <<Unwrap(kc.csk), Unwrap(kc.good)>>
                     ELSE <<Unwrap(kc.good), Unwrap(kc.csk)>>
          IN  kc' = [kc EXCEPT !.pc = "response",
                       !.first = first,
                       !.resp_out = decompress([pk |-> Unwrap(kc.pk),
                                                sks |-> sks], kc.n)]
    /\ UNCHANGED <<fe_core, cmp, rep, proto_vars>>

KcNext ==
    \/ KcKeyGen
    \/ KcCompress
    \/ KcTamper
    \/ KcDecompress
    \/ KcResponse

SpecCompression == KcInit /\ [][KcNext]_vars

(***************************************************************************)
(* C1: FE correctness.  For every instance Setup produces, every key       *)
(* vector y, plaintext vector x, encryption randomness and every bound     *)
(* strictly greater than <x,y>, Dec(KeyGen(y), Enc(x), bound) is           *)
(* Some(<x,y>).                                                            *)
(***************************************************************************)
C1_FECorrectness ==
    (fe_pc = "done" /\ fe_bound > InnerProduct(fe_x, fe_y))
        => fe_dec = Some(InnerProduct(fe_x, fe_y))

C1_Witness ==
    /\ fe_pc = "done"
    /\ InnerProduct(fe_x, fe_y) > 0
    /\ fe_bound > InnerProduct(fe_x, fe_y)
    /\ fe_dec = Some(InnerProduct(fe_x, fe_y))

(***************************************************************************)
(* Two runs of Setup, KeyGen and Enc side by side, on seeds and inputs     *)
(* chosen independently for each: what the outputs depend on.              *)
(***************************************************************************)
\* the vectors of the two runs
RepVectors ==
    { collect([i \in 1..FeN |-> (1 + b * i) % (MaxCoord + 1)]) : b \in {0, 1} }

\* the positions of the encryptor's rng at which Enc draws r
RepDraws == {5, 6}

\* an instance with the generators of `inst` and the master secret key `msk`
WithMsk(inst, msk) ==
    [g |-> inst.g, h |-> inst.h, msk |-> msk,
     mpk |-> collect([i \in 1..Len(msk) |->
                PointAdd(PointMul(msk[i].s, inst.g),
                         PointMul(msk[i].t, inst.h))])]

RepStart ==
    [pc |-> "setup", seed |-> <<>>, made |-> <<>>, inst |-> <<>>,
     y |-> <<>>, sk |-> <<>>, x |-> <<>>, rnd |-> <<>>, ct |-> <<>>]

RepInit ==
    /\ FeIdle
    /\ ProtoIdle
    /\ cmp = CmpIdle
    /\ kc = KcIdle
    /\ os_entropy = [authority |-> 1, client |-> 1]
    /\ rep = RepStart

\* Instance::setup, twice; the second run goes on with the instance it made
\* or with one that has its generators and the msk of the first
RepSetup ==
    /\ rep.pc = "setup"
    /\ \E sa, sb \in 1..NumSetupSeeds, same_msk \in BOOLEAN :
          LET a == setup(FeN, sa)
              b == setup(FeN, sb)
          IN  rep' = [rep EXCEPT !.pc = "keygen",
                        !.seed = <<sa, sb>>,
                        !.made = <<a, b>>,
                        !.inst = <<a, IF same_msk THEN WithMsk(b, a.msk)
                                      ELSE b>>]
    /\ UNCHANGED <<fe_core, cmp, kc, proto_vars>>

\* Instance::secret_key, once in each run
RepKeyGen ==
    /\ rep.pc = "keygen"
    /\ \E ya, yb \in RepVectors :
          rep' = [rep EXCEPT !.pc = "encrypt",
                    !.y = <<ya, yb>>,
                    !.sk = <<secret_key(rep.inst[1], ya),
                             secret_key(rep.inst[2], yb)>>]
    /\ UNCHANGED <<fe_core, cmp, kc, proto_vars>>

\* PublicKey::encrypt, once in each run, each with its rng: [seed, k]
RepEncrypt ==
    /\ rep.pc = "encrypt"
    /\ \E xa, xb \in RepVectors, ea, eb \in 1..NumEncSeeds,
          ka, kb \in RepDraws :
          rep' = [rep EXCEPT !.pc = "done",
                    !.x = <<xa, xb>>,
                    !.rnd = <<[seed |-> ea, k |-> ka],
                              [seed |-> eb, k |-> kb]>>,
                    !.ct = <<encrypt(public_key(rep.inst[1]), ea, ka, xa),
                             encrypt(public_key(rep.inst[2]), eb, kb, xb)>>]
    /\ UNCHANGED <<fe_core, cmp, kc, proto_vars>>

RepNext ==
    \/ RepSetup
    \/ RepKeyGen
    \/ RepEncrypt

SpecRepeat == RepInit /\ [][RepNext]_vars

(***************************************************************************)
(* C2: bound discipline.  For every bound less than or equal to <x,y>      *)
(* (bound 0 included) Dec returns None; with C1, Dec returns None if and   *)
(* only if <x,y> >= bound.                                                 *)
(***************************************************************************)
C2_BoundDiscipline ==
    fe_pc = "done" =>
        ((fe_dec = None) <=> (InnerProduct(fe_x, fe_y) >= fe_bound))

C2_Witness ==
    /\ fe_pc = "done"
    /\ fe_bound > 0
    /\ InnerProduct(fe_x, fe_y) >= fe_bound
    /\ fe_dec = None

(***************************************************************************)
(* What the claims about the protocol speak of.                            *)
(***************************************************************************)
\* the maximum of a non-empty finite set of integers
MaxOf(S) == CHOOSE m \in S : \A n \in S : n <= m

\* v(d): the bit vector of the digest d
VectorOf(d) == Unwrap(to_bits(FHVector_from(d), NILSIMSA_VECTOR_SIZE_BITS))

\* the bit vector of the Client
ClientVector == Unwrap(to_bits(fuzzy_hash, NILSIMSA_VECTOR_SIZE_BITS))

\* score(x, y) = 128 - (N/2 - <v(x), v(y)>), on the bit vectors
SpecScore(vx, vy) ==
    128 - ((NILSIMSA_VECTOR_SIZE_BITS \div 2) - InnerProduct(vx, vy))

\* the scores of the rows of the store against the Client's vector
CorpusScores ==
    { SpecScore(ClientVector, VectorOf(db_rows[i])) : i \in 1..Len(db_rows) }

\* the number of batches of the store: its size over N - 1, rounded up
NumBatches ==
    (Len(db_rows) + NILSIMSA_VECTOR_SIZE_BITS - 2)
        \div (NILSIMSA_VECTOR_SIZE_BITS - 1)

\* the scores compare gave for the keys of the b-th batch scored
BatchScores(b) ==
    { Unwrap(scored[b][j].res) :
        j \in { k \in 1..Len(scored[b]) : scored[b][k].res # Panic } }

\* the similarity_score of the k-th EncryptionRequest Compute sent
SentScore(k) == sent_log[k].msg.similarity_score

(***************************************************************************)
(* C3: batch max.  In a complete session of Client::start with digest x    *)
(* against a store split over any number of batches, the score the Client  *)
(* returns is the maximum over the rows y_i of                             *)
(* 128 - (N/2 - <v(x), v(y_i)>); for an empty store it is INT16_MIN.       *)
(***************************************************************************)
C3_BatchMax ==
    (peer_kind = "client" /\ cl_pc = "returned") =>
        cl_result = Some(IF db_rows = <<>> THEN I16_MIN
                         ELSE MaxOf(CorpusScores))

\* a session over several batches whose best row is in the first batch and
\* not in the last one
C3_Witness ==
    /\ peer_kind = "client"
    /\ cl_pc = "returned"
    /\ NumBatches >= 2
    /\ cl_result = Some(MaxOf(CorpusScores))
    /\ SpecScore(ClientVector, VectorOf(db_rows[1])) = MaxOf(CorpusScores)
    /\ SpecScore(ClientVector, VectorOf(db_rows[Len(db_rows)]))
          < MaxOf(CorpusScores)

C5_AuthorityRefuses ==
    \A k \in 1..Len(auth_log) :
        /\ (Len(auth_log[k].vectors) = 0
                \/ Len(auth_log[k].vectors) >= NILSIMSA_VECTOR_SIZE_BITS)
              => (~auth_log[k].instance /\ auth_log[k].pk = None)
        /\ auth_log[k].nkeys < NILSIMSA_VECTOR_SIZE_BITS

\* a request of N + 1 vectors served with an instance and N + 1 secret keys
C5_Witness ==
    \E k \in 1..Len(auth_log) :
        /\ Len(auth_log[k].vectors) = NILSIMSA_VECTOR_SIZE_BITS + 1
        /\ auth_log[k].instance
        /\ auth_log[k].nkeys = NILSIMSA_VECTOR_SIZE_BITS + 1

(***************************************************************************)
(* C6: batching.  Compute sends the Authority one request per batch, each  *)
(* of 1 to N - 1 vectors; the requests together hold every hash of the     *)
(* store once, in the store's order; none is rejected by the Authority;    *)
(* an empty store produces no request.                                     *)
(***************************************************************************)
RECURSIVE Flatten(_)
Flatten(ss) ==
    IF ss = <<>> THEN <<>> ELSE Head(ss) \o Flatten(Tail(ss))

\* the requests Compute has sent to the Authority: those handled, then the
\* one on its way
ComputeRequests ==
    collect([k \in 1..Len(auth_log) |-> auth_log[k].vectors])
        \o (IF auth_conn.peer = "compute" /\ auth_conn.state = "sent"
            THEN <<auth_conn.req.value>> ELSE <<>>)

\* the hashes of the store, in its order
StoreHashes == collect([i \in 1..Len(db_rows) |-> FHVector_from(db_rows[i])])

C6_Batching ==
    /\ \A k \in 1..Len(ComputeRequests) :
          /\ Len(ComputeRequests[k]) >= 1
          /\ Len(ComputeRequests[k]) <= NILSIMSA_VECTOR_SIZE_BITS - 1
    /\ Len(ComputeRequests) <= NumBatches
    /\ Flatten(ComputeRequests)
          = SubSeq(StoreHashes, 1, Len(Flatten(ComputeRequests)))
    /\ \A k \in 1..Len(auth_log) : auth_log[k].instance
    /\ srv_pc \notin {"panicked", "failed"}
    /\ h_pc # "idle" =>
          /\ Len(ComputeRequests) = NumBatches
          /\ Flatten(ComputeRequests) = StoreHashes

\* a store of two full batches and one more row, all fetched
C6_Witness ==
    /\ h_pc # "idle"
    /\ Len(auth_log) = 3
    /\ Len(auth_log[1].vectors) = NILSIMSA_VECTOR_SIZE_BITS - 1
    /\ Len(auth_log[3].vectors) = 1
    /\ \A k \in 1..3 : auth_log[k].instance

(***************************************************************************)
(* C7: message order.  When the store has B batches and the Client answers *)
(* every request with an EncryptedVector, Compute sends B                  *)
(* EncryptionRequests with pk = Some(pk_b), pk_b the public key the        *)
(* Authority issued for batch b, in batch order, then exactly one with     *)
(* pk = None, and nothing after it.                                        *)
(***************************************************************************)
C7_MessageOrder ==
    peer_kind = "client" =>
        /\ Len(sent_log) <= NumBatches + 1
        /\ \A k \in 1..Len(sent_log) :
              IF k <= NumBatches
              THEN /\ auth_log[k].pk # None
                   /\ sent_log[k].msg.pk = auth_log[k].pk
              ELSE sent_log[k].msg.pk = None
        /\ (h_pc = "done" \/ cl_pc = "returned") =>
              Len(sent_log) = NumBatches + 1

\* a session of three batches at its end: four requests sent, all read
C7_Witness ==
    /\ peer_kind = "client"
    /\ h_pc = "done"
    /\ NumBatches = 3
    /\ Len(sent_log) = 4
    /\ sent_log[4].msg.pk = None
    /\ to_client = <<>>

(***************************************************************************)
(* C8: strict alternation.  After the HashComparisonRequest, Compute sends *)
(* an EncryptionRequest only when every earlier one has been answered and  *)
(* the answer read; an EncryptionResponse is on its way only as the answer *)
(* to the latest request, whose pk is Some and which Compute is waiting    *)
(* on; at most one message is in flight at any time.                       *)
(***************************************************************************)
C8_Alternation ==
    /\ Len(to_compute) + Len(to_client) <= 1
    /\ Len(sent_log) = Len(recv_log) + Len(to_client)
    /\ h_pc \in {"send_pk", "final"} =>
          (to_client = <<>> /\ to_compute = <<>>)
    /\ (to_compute # <<>> /\ Head(to_compute).tag # "NILSIMSA") =>
          /\ h_pc = "await_ct"
          /\ recv_log # <<>>
          /\ recv_log[Len(recv_log)].pk # None
          /\ Len(recv_log) = Len(sent_log)

\* the Client's answer to the second request on its way
C8_Witness ==
    /\ peer_kind = "client"
    /\ h_pc = "await_ct"
    /\ Len(sent_log) = 2
    /\ Len(to_compute) = 1
    /\ Head(to_compute).tag = "EncryptedVector"
    /\ to_client = <<>>

(***************************************************************************)
(* C9: the Client returns exactly when it receives an EncryptionRequest    *)
(* with pk = None, and returns the maximum of INT16_MIN and every          *)
(* similarity_score it received, that of the last request included.        *)
(***************************************************************************)
ReceivedScores ==
    { Unwrap(recv_log[k].similarity_score) :
        k \in { i \in 1..Len(recv_log) : recv_log[i].similarity_score # None } }

C9_ClientReturn ==
    peer_kind = "client" =>
        /\ (cl_pc = "returned") <=>
              (\E k \in 1..Len(recv_log) : recv_log[k].pk = None)
        /\ (cl_result # None) <=> (cl_pc = "returned")
        /\ cl_pc = "returned" =>
              /\ \A k \in 1..Len(recv_log) :
                    (recv_log[k].pk = None) <=> (k = Len(recv_log))
              /\ cl_result = Some(MaxOf({I16_MIN} \cup ReceivedScores))

\* a return whose value was received before the last request
C9_Witness ==
    /\ peer_kind = "client"
    /\ cl_pc = "returned"
    /\ Len(recv_log) >= 3
    /\ Unwrap(recv_log[Len(recv_log)].similarity_score) < Unwrap(cl_result)

(***************************************************************************)
(* C10, as the code has it: when decrypt returns None for a key during     *)
(* batch scoring, compare panics and the handler task ends there: the      *)
(* score keeps the maximum of the keys before that one, no later key is    *)
(* scored, no further batch is scored and no further EncryptionRequest is  *)
(* sent; the handler panics in no other case.                              *)
(***************************************************************************)
HasNone(b) == \E j \in 1..Len(scored[b]) : scored[b][j].dec = None

FirstNone(b) ==
    CHOOSE j \in 1..Len(scored[b]) :
        /\ scored[b][j].dec = None
        /\ \A i \in 1..(j - 1) : scored[b][i].dec # None

AuthorityRefused(e) ==
    \/ ~e.decoded
    \/ Len(e.vectors) = 0
    \/ Len(e.vectors) = SERVER_MAX_LEN

C14_OneBatchDecompressed ==
    /\ Len(keys) <= 1
    /\ Len(keys) <= Len(scored) + 1

\* two batches are decompressed on Compute and none has been scored yet
C14_Witness ==
    /\ Len(keys) = 2
    /\ scored = <<>>
    /\ h_pc = "send_pk"
    /\ sent_log = <<>>

(***************************************************************************)
(* C11, as claimed: the Compute server survives every failed session.      *)
(* After the client disconnects before sending its request, sends a        *)
(* malformed request, or the Authority is unreachable, rejects a batch or  *)
(* returns a key that fails to decompress, the accept loop of Compute is   *)
(* still running.                                                          *)
(***************************************************************************)
C11_ComputeSurvives == srv_pc \notin {"panicked", "failed"}

\* Server::run has ended on a client that went away before its request
C11_Witness ==
    /\ cl_pc = "gone"
    /\ to_compute = <<>>
    /\ srv_pc = "panicked"
    /\ h_pc = "idle"

\* Server::run has ended on each of the other failures of the list
C11_MalformedEnds ==
    peer_kind = "peer" /\ cl_pc = "await" /\ recv_log = <<>>
        /\ sent_log = <<>> /\ auth_log = <<>> /\ srv_pc = "panicked"
C11_UnreachableEnds ==
    cl_pc = "await" /\ auth_log = <<>> /\ batch_ix = 1 /\ srv_pc = "failed"
C11_BadKeyEnds ==
    auth_log # <<>> /\ auth_log[Len(auth_log)].result = Ok(TRUE)
        /\ auth_conn = AuthIdle /\ batch_ix = Len(auth_log)
        /\ srv_pc = "failed"

(***************************************************************************)
(* C12, as claimed: when the Authority rejects a batch, closing the        *)
(* connection with no response, Compute aborts the session with an error   *)
(* outcome, reported as an error value and not as a hang or a panic, and   *)
(* the client has been sent no EncryptionRequest and no score.             *)
(***************************************************************************)
AuthorityRejected ==
    /\ auth_log # <<>>
    /\ auth_log[Len(auth_log)].peer = "compute"
    /\ auth_log[Len(auth_log)].result = Err
    /\ auth_conn = AuthIdle

C12_RejectionIsError ==
    AuthorityRejected =>
        (srv_pc = "failed" /\ sent_log = <<>> /\ h_pc = "idle")

\* Compute has read the end of the stream where it unwraps the response:
\* Server::run has panicked; nothing was sent to the client
C12_Witness ==
    /\ AuthorityRejected
    /\ srv_pc = "panicked"
    /\ sent_log = <<>>
    /\ h_pc = "idle"

(***************************************************************************)
(* C15: encoding identity.  For all digests h1, h2, with v(h) the digest   *)
(* followed by its complement as FHVector::from builds it, expanded to     *)
(* bits, popcount(h1 XOR h2) = D - <v(h1), v(h2)> with D the number of     *)
(* bits of a digest (256), and so lies in 0..D.                            *)
(***************************************************************************)
RECURSIVE count_ones(_)
count_ones(b) == IF b = 0 THEN 0 ELSE (b % 2) + count_ones(b \div 2)

\* popcount(h1 XOR h2)
HammingDistance(h1, h2) ==
    SumSeq([i \in 1..Len(h1) |-> count_ones(Xor8(h1[i], h2[i]))])

\* the bitwise complement of a digest
DigestNot(h) == collect([i \in 1..Len(h) |-> Xor8(U8_MAX, h[i])])

DigestBits == 8 * NILSIMSA_FH_SIZE_BYTES

C15_EncodingIdentity ==
    cmp.pc \notin {"idle", "digests"} =>
        /\ HammingDistance(cmp.h1, cmp.h2)
              = DigestBits - InnerProduct(cmp.x1, cmp.x2)
        /\ HammingDistance(cmp.h1, cmp.h2) \in 0..DigestBits

\* two encoded digests that differ in three bits
C15_Witness ==
    /\ cmp.pc = "encoded"
    /\ HammingDistance(cmp.h1, cmp.h2) = 3
    /\ InnerProduct(cmp.x1, cmp.x2) = DigestBits - 3

C17_ScoreIsBaseMinusDistance ==
    cmp.pc \in {"scored", "tested"} =>
        cmp.score = Returns(ScoreBase - HammingDistance(cmp.h1, cmp.h2))

\* two digests that differ in one bit score one less than the highest score
C17_Witness ==
    /\ cmp.pc = "scored"
    /\ HammingDistance(cmp.h1, cmp.h2) = 1
    /\ cmp.score = Returns(ScoreBase - 1)

(***************************************************************************)
(* C17, as claimed: the similarity score the system computes for two       *)
(* digests is 128 - (D - popcount(h1 XOR h2)), which with D = 256 is       *)
(* popcount(h1 XOR h2) - 128.                                              *)
(***************************************************************************)
C17_ScoreIsDistanceMinusBase ==
    cmp.pc \in {"scored", "tested"} =>
        cmp.score = Returns(ScoreBase
                              - (DigestBits - HammingDistance(cmp.h1, cmp.h2)))

(***************************************************************************)
(* C18, as claimed: for any two raw bit vectors h1, h2, comparing the      *)
(* vectors followed by their complements through the FE scheme,            *)
(* compare(KeyGen(h1 || not h1), Enc(h2 || not h2)), yields 128 minus the  *)
(* inner product of the raw vectors, 128 - sum_i h1[i] * h2[i], which is   *)
(* what test_correctness asserts.                                          *)
(***************************************************************************)
C18_TestExpectation ==
    cmp.pc = "tested" => cmp.test_score = Returns(cmp.expected)

\* both raw vectors all ones: compare returns 128 where the test expects
\* 128 minus the number of bits
C18_Witness ==
    /\ cmp.pc = "tested"
    /\ cmp.h1 = cmp.h2
    /\ InnerProduct(SubSeq(cmp.x1, 1, TestN), SubSeq(cmp.x2, 1, TestN)) = TestN
    /\ cmp.expected = ScoreBase - TestN
    /\ cmp.test_score = Returns(ScoreBase)

(***************************************************************************)
(* C19, as claimed: compression round trip.  For any secret key sk whose   *)
(* vector x is made of zeros and ones, whatever its length N,              *)
(* decompress(compress(sk)) succeeds and yields a key with the same g, sx, *)
(* tx and x, so that Dec gives the same result with it as with sk for      *)
(* every ciphertext and bound.                                             *)
(***************************************************************************)
IsBits(x) == \A i \in 1..Len(x) : x[i] \in {0, 1}

RoundTripDone ==
    /\ kc.pc \in {"decompressed", "response"}
    /\ kc.tampered = "no"
    /\ IsBits(kc.x)

C19_RoundTrip ==
    RoundTripDone =>
        /\ kc.out = Ok(Unwrap(kc.sk))
        /\ kc.dec_back = kc.dec

\* a key of 12 zeros and ones compressed and handed back to try_from, which
\* panics on it
C19_Witness ==
    /\ RoundTripDone
    /\ kc.n % 8 # 0
    /\ Len(Unwrap(kc.csk).x) = kc.n \div 8
    /\ kc.out = Panic

\* the round trip when N is a multiple of 8, which 512 is
C19_RoundTripWholeBytes ==
    (RoundTripDone /\ kc.n % 8 = 0) =>
        /\ kc.out = Ok(Unwrap(kc.sk))
        /\ kc.dec_back = kc.dec

(***************************************************************************)
(* C20, as claimed: decompression rejects, with an error value and without *)
(* panicking, every compressed secret key whose packed vector length       *)
(* differs from ceil(N/8) bytes or whose group element fails to decode,    *)
(* for every vector length N; and GenerateInstanceResponse::decompress     *)
(* fails as a whole as soon as one key of the response is rejected.        *)
(***************************************************************************)
CeilBytes(n) == (n + 7) \div 8

MustReject(csk, n) ==
    \/ Len(csk.x) # CeilBytes(n)
    \/ PointDecompress(csk.g) = None

C20_DecompressionRejects ==
    /\ (kc.pc \in {"decompressed", "response"}
          /\ MustReject(Unwrap(kc.csk), kc.n)) => kc.out = Err
    /\ (kc.pc = "response"
          /\ (MustReject(Unwrap(kc.csk), kc.n)
                \/ MustReject(Unwrap(kc.good), kc.n))) => kc.resp_out = Err

\* N = 12: a key with one packed byte, where ceil(N/8) is 2, is not
\* rejected with an error: try_from panics
C20_Witness ==
    /\ kc.pc = "decompressed"
    /\ kc.n % 8 # 0
    /\ Len(Unwrap(kc.csk).x) # CeilBytes(kc.n)
    /\ PointDecompress(Unwrap(kc.csk).g) # None
    /\ kc.out = Panic

\* the rejections when N is a multiple of 8
C20_RejectsWholeBytes ==
    kc.n % 8 = 0 =>
        /\ (kc.pc \in {"decompressed", "response"}
              /\ MustReject(Unwrap(kc.csk), kc.n)) => kc.out = Err
        /\ (kc.pc = "response" /\ MustReject(Unwrap(kc.csk), kc.n))
              => kc.resp_out = Err

(***************************************************************************)
(* C21: bit ordering.  The fanning of bytes into bits is most significant  *)
(* bit first and the same on both sides: for every encoded vector, the     *)
(* Client's expansion (to_bits), the Authority's expansion                 *)
(* (generate_parameters_nilsimsa) and the compression and decompression of *)
(* the key all map bit index i to (byte[i div 8] >> (7 - i mod 8)) & 1, so *)
(* the Client and the Authority derive the same bit vector from the same   *)
(* digest.                                                                 *)
(***************************************************************************)
MsbFirst(v) ==
    [i \in 1..(8 * Len(v)) |->
        (v[((i - 1) \div 8) + 1] \div (2 ^ (7 - ((i - 1) % 8)))) % 2]

C21_BitOrder ==
    /\ cmp.pc \notin {"idle", "digests"} =>
          /\ cmp.x1 = MsbFirst(cmp.v1)
          /\ cmp.x2 = MsbFirst(cmp.v2)
    /\ cmp.pc \notin {"idle", "digests", "encoded"} =>
          /\ Unwrap(cmp.sk).x = MsbFirst(cmp.v1)
          /\ Unwrap(cmp.sk).x = cmp.x1
          /\ cmp.packed = cmp.v1

\* the digest 0x01, whose only one is the last bit of the first byte: the
\* key that came back from the Authority has the bits the Client computes
C21_Witness ==
    /\ cmp.pc = "keyed"
    /\ cmp.h1[1] = 1
    /\ cmp.x1[8] = 1
    /\ cmp.x1[1] = 0
    /\ Unwrap(cmp.sk).x = cmp.x1
    /\ cmp.packed = cmp.v1

(***************************************************************************)
(* C22, as the code has it: a response of the Authority consists only of   *)
(* the public key (g, h, mpk) and, per requested vector, (g, sx, tx,       *)
(* packed x); it has no field for the master secret key, and the instance  *)
(* lives only inside the request handler.  But sx and tx are the sums of   *)
(* the s_i and of the t_i over the ones of the vector: for a requested     *)
(* vector with a single one, at index i, the key sent is (s_i, t_i)        *)
(* itself.                                                                 *)
(***************************************************************************)
Answered == { k \in 1..Len(auth_log) : auth_log[k].sent # None }

\* the bits of a requested vector
BitsOf(v) == Unwrap(to_bits(v, NILSIMSA_VECTOR_SIZE_BITS))

\* the indices of the ones of a bit vector
OnesOf(x) == { i \in 1..Len(x) : x[i] = 1 }

C22_ResponseFields ==
    /\ \A k \in Answered :
          LET e == auth_log[k]
              response == Unwrap(e.sent)
          IN  /\ DOMAIN response = {"pk", "sks"}
              /\ DOMAIN response.pk = {"g", "h", "mpk"}
              /\ \A j \in 1..Len(response.sks) :
                    /\ DOMAIN response.sks[j] = {"g", "sx", "tx", "x"}
                    /\ \A i \in 1..NILSIMSA_VECTOR_SIZE_BITS :
                          OnesOf(BitsOf(e.vectors[j])) = {i} =>
                              /\ response.sks[j].sx = e.msk[i].s
                              /\ response.sks[j].tx = e.msk[i].t
    /\ \A c \in {auth_conn, auth_conn_b} :
          DOMAIN c = {"peer", "state", "req", "resp"}

\* a response to a request for the vector whose only one is bit 0: it has
\* the fields of the claim, and its key is the first pair of the msk
C22_Witness ==
    \E k \in Answered :
        /\ auth_log[k].vectors = <<UnitVector>>
        /\ DOMAIN Unwrap(auth_log[k].sent).pk = {"g", "h", "mpk"}
        /\ Unwrap(auth_log[k].sent).sks[1].sx = auth_log[k].msk[1].s
        /\ Unwrap(auth_log[k].sent).sks[1].tx = auth_log[k].msk[1].t

(***************************************************************************)
(* C22, as claimed: the master secret key never leaves the Authority: no   *)
(* message the Authority sends contains any msk scalar pair (s_i, t_i).    *)
(***************************************************************************)
C22_NoMskScalarSent ==
    \A k \in Answered :
        \A j \in 1..Len(Unwrap(auth_log[k].sent).sks) :
            \A i \in 1..NILSIMSA_VECTOR_SIZE_BITS :
                ~ /\ Unwrap(auth_log[k].sent).sks[j].sx = auth_log[k].msk[i].s
                  /\ Unwrap(auth_log[k].sent).sks[j].tx = auth_log[k].msk[i].t

(***************************************************************************)
(* C23: the FE operations are deterministic given the randomness: the same *)
(* seed gives the same instance, the same instance and vector the same     *)
(* secret key, the same public key, vector and rng the same ciphertext.    *)
(* sx and tx of a secret key depend only on y and the msk (not on g, h):   *)
(* two instances with one msk give the same sx, tx for the same y.  A      *)
(* ciphertext depends only on pk, x and the scalar r drawn: two rngs that  *)
(* yield the same r give the same ciphertext.                              *)
(***************************************************************************)
\* the scalar r that encrypt draws from an rng
DrawnScalar(rnd) == ScalarRandom(rnd.seed, rnd.k)

C23_SameScalar ==
    /\ rep.pc = "done"
    /\ rep.seed[1] = rep.seed[2]
    /\ rep.inst[1] = rep.inst[2]
    /\ rep.x[1] = rep.x[2]
    /\ rep.rnd[1] # rep.rnd[2]
    /\ DrawnScalar(rep.rnd[1]) = DrawnScalar(rep.rnd[2])
    /\ rep.ct[1] = rep.ct[2]

(***************************************************************************)
(* C24: with a finite corpus, an Authority that answers, no connection     *)
(* failure and fair scheduling, every session of Client::start eventually  *)
(* ends with Compute having sent a request with pk = None and the client   *)
(* having returned a score.  The client goes Await -> Receive -> (pk =     *)
(* None ? Return : Encrypt -> Send -> Await): each request it reads either *)
(* makes it return, or makes it send exactly one EncryptedVector and await *)
(* again; it never sends EndOfComparison.                                  *)
(***************************************************************************)
SessionEnded ==
    /\ cl_pc = "returned"
    /\ cl_result # None
    /\ h_pc = "done"
    /\ sent_log # <<>>
    /\ sent_log[Len(sent_log)].msg.pk = None
    /\ to_client = <<>>
    /\ to_compute = <<>>

\* one step of the client's loop
ClientLoopStep ==
    /\ cl_pc = "await"
    /\ Len(recv_log') = Len(recv_log) + 1
    /\ LET encryption_rq == recv_log'[Len(recv_log')]
       IN  IF encryption_rq.pk = None
           THEN /\ cl_pc' = "returned"
                /\ cl_result' # None
                /\ to_compute' = to_compute
           ELSE /\ cl_pc' = "await"
                /\ cl_result' = None
                /\ Len(to_compute') = Len(to_compute) + 1
                /\ to_compute'[Len(to_compute')].tag = "EncryptedVector"

C24_SessionTerminates ==
    /\ (peer_kind = "client" /\ cl_pc = "init") ~> SessionEnded
    /\ [][ (peer_kind = "client"
             /\ (to_compute' # to_compute \/ cl_pc' # cl_pc
                    \/ recv_log' # recv_log))
           => \/ ClientLoopStep
              \/ cl_pc = "init" /\ cl_pc' = "start" /\ to_compute' = to_compute
              \/ /\ cl_pc = "start" /\ cl_pc' = "await"
                 /\ to_compute' =
                       Append(to_compute, HashComparisonRequest_NILSIMSA)
              \/ /\ cl_pc' = cl_pc /\ recv_log' = recv_log
                 /\ to_compute' = Tail(to_compute) ]_vars
    /\ [](peer_kind = "client" =>
             \A k \in 1..Len(to_compute) : to_compute[k] # EndOfComparison)

\* a session over several batches that has ended
C24_Witness ==
    /\ peer_kind = "client"
    /\ SessionEnded
    /\ Len(keys) >= 2
    /\ Len(recv_log) = Len(keys) + 1
    /\ cl_rng_pos = Len(keys)

(***************************************************************************)
(* C25: the brute force of Dec starts at i = 0 with P the identity, adds g *)
(* at each step and stops after at most `bound` steps; it returns the      *)
(* least i in [0, bound) with i*g = E, or None when there is none.  The    *)
(* counter never exceeds the bound, so it never wraps around; and the loop *)
(* guard `i < bound` of the finite-field backend gives the same result as  *)
(* the guard `i != bound` of the elliptic-curve backend.                   *)
(***************************************************************************)
\* the point E that decrypt searches for
DecTarget ==
    multiscalar_mul(fe_sk.x \o <<ScalarNeg(fe_sk.sx), ScalarNeg(fe_sk.tx)>>,
                    fe_ct.e \o <<fe_ct.c, fe_ct.d>>)

\* the i below bound with i*g = E
Logs(g, ex, bound) == { i \in 0..(bound - 1) : PointMul(i, g) = ex }

C25_BruteForce ==
    fe_pc = "done" =>
        LET found == Logs(fe_sk.g, DecTarget, fe_bound)
            counter == BruteForceCounter(0, Identity, fe_sk.g, DecTarget,
                                         fe_bound)
        IN  /\ fe_dec = IF found = {} THEN None
                        ELSE Some(CHOOSE i \in found : \A j \in found : i <= j)
            /\ Len(counter) <= fe_bound + 1
            /\ \A k \in 1..Len(counter) : counter[k] = k - 1 /\ counter[k] <= fe_bound
            /\ fe_dec = BruteForce_ff(0, Identity, fe_sk.g, DecTarget, fe_bound)

\* a Dec with the largest bound there is that ran all its steps and found
\* nothing, and the counter stopped at the bound
C25_Witness ==
    /\ fe_pc = "done"
    /\ fe_bound = U16_MAX
    /\ fe_dec = None
    /\ Len(BruteForceCounter(0, Identity, fe_sk.g, DecTarget, fe_bound))
          = U16_MAX + 1

(***************************************************************************)
(* C26: the Authority makes one fresh FE instance per request; the public  *)
(* key and all the secret keys of a response come from that one instance,  *)
(* one key per requested vector, in request order.  Compute decrypts the   *)
(* ciphertext it received in reply to the public key of batch b with the   *)
(* keys of batch b, all of them and no others.  The histories only grow:   *)
(* a response is examined in the states where it is the last one written,  *)
(* a batch of keys where it is the last one pushed, a scoring where it is  *)
(* the last one made.                                                      *)
(***************************************************************************)
\* the sum of the msk components `c` over the ones of the bit vector x
MskSum(msk, c, x) ==
    SumSeq([i \in 1..Len(x) |-> msk[i][c] * x[i]]) % GroupOrder

\* the ciphertexts the peer of the session may have sent in reply to pk, as
\* its b-th ciphertext
RepliesTo(pk, b) ==
    IF peer_kind = "client"
    THEN { encrypt(pk, os_entropy.client, b - 1,
                   Unwrap(to_bits(fuzzy_hash, NILSIMSA_VECTOR_SIZE_BITS))) }
    ELSE { encrypt(pk, os_entropy.client, b - 1, v) : v \in PeerVectors }

C26_KeyPairing ==
    /\ \A k1, k2 \in Answered :
          k1 # k2 => /\ auth_log[k1].msk # auth_log[k2].msk
                     /\ auth_log[k1].pk # auth_log[k2].pk
    /\ \A k \in Answered \cap {Len(auth_log)} :
          LET e == auth_log[k]
              response == Unwrap(e.sent)
              pk == response.pk
          IN  /\ Len(response.sks) = Len(e.vectors)
              /\ \A i \in 1..NILSIMSA_VECTOR_SIZE_BITS :
                    pk.mpk[i] = PointAdd(PointMul(e.msk[i].s, pk.g),
                                         PointMul(e.msk[i].t, pk.h))
              /\ \A j \in 1..Len(response.sks) :
                    LET x == BitsOf(e.vectors[j])
                    IN  /\ response.sks[j].x = e.vectors[j]
                        /\ response.sks[j].g = PointCompress(pk.g)
                        /\ response.sks[j].sx = MskSum(e.msk, "s", x)
                        /\ response.sks[j].tx = MskSum(e.msk, "t", x)
    /\ \A b \in 1..Len(keys) :
          /\ b <= Len(auth_log)
          /\ auth_log[b].vectors =
                chunks(hashes, NILSIMSA_VECTOR_SIZE_BITS - 1)[b]
          /\ auth_log[b].sent # None
    /\ \A b \in {Len(keys)} \ {0} :
          Ok(keys[b]) = decompress(Unwrap(auth_log[b].sent),
                                   NILSIMSA_VECTOR_SIZE_BITS)
    /\ \A b \in 1..Len(scored) :
          /\ recv_log[b].pk = Some(keys[b].pk)
          /\ Len(scored[b]) = Len(keys[b].sks)
    /\ \A b \in {Len(scored)} \ {0} :
          /\ \E ct \in RepliesTo(keys[b].pk, b) :
                \A j \in 1..Len(keys[b].sks) :
                    scored[b][j].dec =
                        decrypt(keys[b].sks[j], ct, NILSIMSA_VECTOR_SIZE_BITS)

\* a session of Client::start over two batches of different sizes, both
\* scored: the first key of the first batch would decrypt the second
\* ciphertext to something else than the first key of the second batch did
C26_Witness ==
    /\ peer_kind = "client"
    /\ Len(keys) = 2
    /\ Len(scored) = 2
    /\ Len(keys[1].sks) # Len(keys[2].sks)
    /\ auth_log[1].pk # auth_log[2].pk
    /\ \E ct \in RepliesTo(keys[2].pk, 2) :
          /\ scored[2][1].dec =
                decrypt(keys[2].sks[1], ct, NILSIMSA_VECTOR_SIZE_BITS)
          /\ scored[2][1].dec #
                decrypt(keys[1].sks[1], ct, NILSIMSA_VECTOR_SIZE_BITS)

(***************************************************************************)
(* C27: Compute has the keys of all the batches before it sends the first  *)
(* EncryptionRequest, and makes no request to the Authority after it; if   *)
(* the fetch or the decompression of any batch fails, the client has       *)
(* received no message at all.                                             *)
(***************************************************************************)
\* nothing has gone from Compute to the client
NothingSent ==
    /\ sent_log = <<>>
    /\ to_client = <<>>
    /\ recv_log = <<>>

C27_KeysBeforeSession ==
    /\ ~NothingSent =>
          /\ Len(keys) = NumBatches
          /\ Len(auth_log) = NumBatches
          /\ \A b \in 1..NumBatches :
                /\ auth_log[b].peer = "compute"
                /\ auth_log[b].sent # None
          /\ auth_conn = AuthIdle
          /\ srv_pc \notin {"fetch", "await_authority", "failed", "panicked"}
    /\ srv_pc \in {"fetch", "await_authority", "failed", "panicked"} =>
          /\ NothingSent
          /\ h_pc = "idle"

\* the second batch failed to decompress after the keys of the first one
\* were there, and the client, which awaits, has received nothing
C27_Witness ==
    /\ srv_pc = "failed"
    /\ batch_ix = 2
    /\ Len(keys) = 1
    /\ Len(auth_log) = 2
    /\ cl_pc = "await"
    /\ NothingSent

(***************************************************************************)
(* C28, as claimed: a client that has connected but never sends its        *)
(* HashComparisonRequest does not prevent Compute from accepting another   *)
(* connection and completing that other session: once Client::start has    *)
(* connected, its session ends, whatever the silent client does.           *)
(***************************************************************************)
C28_OtherSessionCompletes ==
    (peer_kind = "client" /\ conn = "pending") ~> SessionEnded

\* Server::run has accepted the silent client and awaits its request; the
\* connection of Client::start is pending and its request is not read
C28_Witness ==
    /\ silent_conn = "open"
    /\ srv_pc = "read_silent"
    /\ peer_kind = "client"
    /\ conn = "pending"
    /\ cl_pc = "await"
    /\ to_compute = <<HashComparisonRequest_NILSIMSA>>
    /\ NothingSent

(***************************************************************************)
(* C28, as the code has it: Server::run reads the request of a connection  *)
(* and fetches its keys inside the accept loop, before it spawns the       *)
(* handler.  While it awaits the silent client, Server::run takes no step  *)
(* for any other connection.                                               *)
(***************************************************************************)
C28_RunBlocks ==
    [][srv_pc = "read_silent" =>
          /\ srv_pc' = "read_silent"
          /\ conn = "pending" => conn' = "pending"
          /\ UNCHANGED <<hashes, batch_ix, keys>>]_vars

(***************************************************************************)
(* C29: for every stored digest and client digest, both encoded as h||~h,  *)
(* the inner product is at most half the vector length, which is below the *)
(* bound given to Dec; so in a session of Client::start Dec never returns  *)
(* None, compare never panics, and 128 - (N/2 - d) stays within i16.       *)
(***************************************************************************)
I16_MAX == (-I16_MIN) - 1
InI16(v) == I16_MIN <= v /\ v <= I16_MAX

C29_HonestInRange ==
    peer_kind = "client" =>
        LET x == BitsOf(fuzzy_hash)
            d == collect([i \in 1..Len(hashes) |->
                            InnerProduct(BitsOf(hashes[i]), x)])
        IN  /\ \A i \in 1..Len(hashes) :
                  d[i] <= NILSIMSA_VECTOR_SIZE_BITS \div 2
            /\ h_pc # "panicked"
            /\ \A b \in 1..Len(scored) : \A j \in 1..Len(scored[b]) :
                  LET dec == scored[b][j].dec
                      res == scored[b][j].res
                  IN  /\ dec # None
                      /\ Unwrap(dec) =
                            d[(b - 1) * (NILSIMSA_VECTOR_SIZE_BITS - 1) + j]
                      /\ Unwrap(dec) < NILSIMSA_VECTOR_SIZE_BITS
                      /\ res # Panic
                      /\ InI16((NILSIMSA_VECTOR_SIZE_BITS \div 2) - Unwrap(dec))
                      /\ InI16(Unwrap(res))
                      /\ Unwrap(res) <= ScoreBase
                      /\ Unwrap(res) >=
                            ScoreBase - (NILSIMSA_VECTOR_SIZE_BITS \div 2)
            /\ InI16(score)

\* a finished session of Client::start over two batches in which one key
\* gave the largest inner product there is, N/2, and another one gave 0
C29_Witness ==
    /\ peer_kind = "client"
    /\ h_pc = "done"
    /\ Len(scored) = 2
    /\ \E b1, b2 \in 1..2 :
          /\ \E j \in 1..Len(scored[b1]) :
                scored[b1][j].dec = Some(NILSIMSA_VECTOR_SIZE_BITS \div 2)
          /\ \E j \in 1..Len(scored[b2]) :
                /\ scored[b2][j].dec = Some(0)
                /\ scored[b2][j].res = Returns(ScoreBase -
                                            (NILSIMSA_VECTOR_SIZE_BITS \div 2))

(***************************************************************************)
(* C30: when the peer answers the EncryptionRequest of batch b with        *)
(* EndOfComparison, Compute scores neither batch b nor any later batch and *)
(* sends no further public key; it sends exactly one final request, with   *)
(* pk = None and the score it held before batch b (the one it sent along   *)
(* with the public key of batch b), and the session ends.                  *)
(***************************************************************************)
\* the handler is about to read an EndOfComparison
EndRequested ==
    /\ h_pc = "await_ct"
    /\ to_compute # <<>>
    /\ Head(to_compute) = EndOfComparison

\* the handler left the loop before the last batch and has finished
EndedEarly ==
    /\ h_pc = "done"
    /\ Len(scored) < Len(keys)
    /\ Len(sent_log) = Len(scored) + 2
    /\ sent_log[Len(sent_log)].msg.pk = None
    /\ sent_log[Len(sent_log) - 1].msg.pk = Some(keys[Len(scored) + 1].pk)
    /\ sent_log[Len(sent_log)].msg.similarity_score
          = sent_log[Len(sent_log) - 1].msg.similarity_score
    /\ sent_log[Len(sent_log)].msg.similarity_score = Some(score)
    /\ \A k \in 1..(Len(sent_log) - 1) : sent_log[k].msg.pk # None

\* the step of the handler that reads an EndOfComparison
EndStep ==
    (EndRequested /\ to_compute' # to_compute)
        => /\ h_pc' = "final"
           /\ UNCHANGED <<h_ix, score, scored, sent_log, keys>>

\* the steps taken once the handler has left the loop
AfterLoopStep ==
    h_pc \in {"final", "done"}
        => /\ UNCHANGED <<h_ix, score, scored, keys>>
           /\ h_pc' \in {"final", "done"}
           /\ (sent_log' # sent_log)
                 => ( /\ h_pc = "final"
                      /\ h_pc' = "done"
                      /\ Len(sent_log') = Len(sent_log) + 1
                      /\ sent_log'[Len(sent_log')].msg
                            = EncryptionRequest(None, Some(score)) )

C30_EndOfComparison ==
    /\ EndRequested ~> EndedEarly
    /\ [][EndStep]_vars
    /\ [][AfterLoopStep]_vars
    /\ [](h_pc = "done" /\ Len(scored) < Len(keys) => EndedEarly)

\* the peer ended the comparison at the second batch of three: one batch
\* was scored, and the final request carries its score
C30_Witness ==
    /\ peer_kind = "peer"
    /\ EndedEarly
    /\ Len(keys) = 3
    /\ Len(scored) = 1
    /\ Len(sent_log) = 3
    /\ sent_log[3].msg.similarity_score # Some(I16_MIN)
    /\ to_compute = <<>>

=============================================================================
